---------------------------- MODULE Spec2Model ----------------------------
(***************************************************************************)
(* State-machine model of the tax-code determination agent.               *)
(*                                                                         *)
(* Conventions of the model                                                *)
(*   - A Python str that the code inspects character by character (an     *)
(*     identifier, a description, a percentage string, the normalized      *)
(*     rate) is a sequence of one-character strings.  A str the code only  *)
(*     compares or copies (codes, enum literals) is a TLA+ string.         *)
(*   - A formatted message f"...{x}..." is a record holding the template   *)
(*     and its arguments (Msg below).                                      *)
(*   - A rate (a Python float) is an integer number of hundredths of a     *)
(*     percent point: 18.0 is 1800, 0.25 is 25.                            *)
(*   - A confidence (a Python float in [0,1]) is an integer number of      *)
(*     ten-thousandths: 0.95 is 9500, 0.6 is 6000.  average_confidence,    *)
(*     rounded to 3 decimals, is an integer number of thousandths.         *)
(***************************************************************************)
EXTENDS Integers, Sequences, FiniteSets, TLC

\* ------------------------------------------------------------------ text

Digits == {"0", "1", "2", "3", "4", "5", "6", "7", "8", "9"}

DigitSeq == <<"0", "1", "2", "3", "4", "5", "6", "7", "8", "9">>

UpperSeq == <<"A", "B", "C", "D", "E", "F", "G", "H", "I", "J", "K", "L", "M",
              "N", "O", "P", "Q", "R", "S", "T", "U", "V", "W", "X", "Y", "Z">>

LowerSeq == <<"a", "b", "c", "d", "e", "f", "g", "h", "i", "j", "k", "l", "m",
              "n", "o", "p", "q", "r", "s", "t", "u", "v", "w", "x", "y", "z">>

Upper == {UpperSeq[i] : i \in 1..Len(UpperSeq)}

\* Python's None where a str is expected: a value no text is equal to.
NoneText == <<"None">>

\* str.lower() and str.upper(), one character (ASCII).
LowerChar(c) ==
    IF \E i \in 1..Len(UpperSeq) : UpperSeq[i] = c
    THEN LowerSeq[CHOOSE i \in 1..Len(UpperSeq) : UpperSeq[i] = c]
    ELSE c

UpperChar(c) ==
    IF \E i \in 1..Len(LowerSeq) : LowerSeq[i] = c
    THEN UpperSeq[CHOOSE i \in 1..Len(LowerSeq) : LowerSeq[i] = c]
    ELSE c

StrLower(s) == [i \in 1..Len(s) |-> LowerChar(s[i])]

StrUpper(s) == [i \in 1..Len(s) |-> UpperChar(s[i])]

\* needle in hay (substring test).
Contains(hay, needle) ==
    \E i \in 1..(Len(hay) - Len(needle) + 1) :
        SubSeq(hay, i, i + Len(needle) - 1) = needle

\* The value of a decimal digit.
DigitVal(c) == (CHOOSE i \in 1..10 : DigitSeq[i] = c) - 1

\* The decimal digits of a natural number.
RECURSIVE NatToText(_)
NatToText(n) ==
    IF n < 10 THEN <<DigitSeq[n + 1]>>
    ELSE NatToText(n \div 10) \o <<DigitSeq[(n % 10) + 1]>>

\* The value of a non-empty sequence of decimal digits.
RECURSIVE TextToNat(_)
TextToNat(s) ==
    IF Len(s) = 0 THEN 0
    ELSE 10 * TextToNat(SubSeq(s, 1, Len(s) - 1)) + DigitVal(s[Len(s)])

RECURSIVE RStrip(_, _)
RStrip(s, c) ==
    IF Len(s) > 0 /\ s[Len(s)] = c THEN RStrip(SubSeq(s, 1, Len(s) - 1), c) ELSE s

RECURSIVE LStrip(_, _)
LStrip(s, c) ==
    IF Len(s) > 0 /\ s[1] = c THEN LStrip(Tail(s), c) ELSE s

\* str.strip(): leading and trailing blanks removed.
Strip(s) == RStrip(LStrip(s, " "), " ")

\* str.replace(c, ''): every occurrence of the character removed.
RemoveChar(s, c) == SelectSeq(s, LAMBDA x : x # c)

\* str(x) of a non-negative float x = h/100: the shortest decimal text that
\* has a decimal point ("18.0", "0.25", "2.5").
FloatStr(h) ==
    NatToText(h \div 100) \o <<".">> \o
        (IF h % 100 = 0 THEN <<"0">>
         ELSE IF h % 10 = 0 THEN <<DigitSeq[((h % 100) \div 10) + 1]>>
         ELSE <<DigitSeq[((h % 100) \div 10) + 1], DigitSeq[(h % 10) + 1]>>)

\* A formatted message: template k, string arguments s, text argument c,
\* numeric argument n (the unused ones at their defaults).
Msg(k, s, c, n) == [k |-> k, s |-> s, c |-> c, n |-> n]

M0(k) == Msg(k, <<>>, <<>>, 0)

Ms(k, s) == Msg(k, <<s>>, <<>>, 0)

Mc(k, c) == Msg(k, <<>>, c, 0)

Mn(k, n) == Msg(k, <<>>, <<>>, n)

\* A plain string used as a description.
Plain(s) == Ms("{}", s)

\* ------------------------------------------------------------- masters

SAP_UNION_TERRITORIES ==
    { <<"0", "4">>, <<"0", "7">>, <<"2", "5">>, <<"2", "6">>,
      <<"3", "1">>, <<"3", "4">>, <<"3", "5">>, <<"3", "8">> }

ORACLE_UNION_TERRITORIES ==
    { <<"0", "4">>, <<"0", "7">>, <<"2", "5">>, <<"2", "6">>,
      <<"3", "1">>, <<"3", "4">>, <<"3", "5">>, <<"3", "8">> }

MS360_UNION_TERRITORIES ==
    { <<"0", "4">>, <<"0", "7">>, <<"2", "5">>, <<"2", "6">>,
      <<"3", "1">>, <<"3", "4">>, <<"3", "5">>, <<"3", "8">> }

SAP_TAX_CODE_MASTER ==
    { <<<<<<"0", ".", "2", "5">>, "INTRA", "REGULAR", "CREDIT", "STATE">>, "3A">>,
      <<<<<<"3">>, "INTRA", "REGULAR", "CREDIT", "STATE">>, "3B">>,
      <<<<<<"5">>, "INTRA", "REGULAR", "CREDIT", "STATE">>, "3C">>,
      <<<<<<"1", "2">>, "INTRA", "REGULAR", "CREDIT", "STATE">>, "3X">>,
      <<<<<<"1", "8">>, "INTRA", "REGULAR", "CREDIT", "STATE">>, "3Z">>,
      <<<<<<"2", "8">>, "INTRA", "REGULAR", "CREDIT", "STATE">>, "3Y">>,
      <<<<<<"0", ".", "2", "5">>, "INTRA", "REGULAR", "CREDIT", "UT">>, "3A_UT">>,
      <<<<<<"3">>, "INTRA", "REGULAR", "CREDIT", "UT">>, "3B_UT">>,
      <<<<<<"5">>, "INTRA", "REGULAR", "CREDIT", "UT">>, "3C_UT">>,
      <<<<<<"1", "2">>, "INTRA", "REGULAR", "CREDIT", "UT">>, "3X_UT">>,
      <<<<<<"1", "8">>, "INTRA", "REGULAR", "CREDIT", "UT">>, "3Z_UT">>,
      <<<<<<"2", "8">>, "INTRA", "REGULAR", "CREDIT", "UT">>, "3Y_UT">>,
      <<<<<<"0", ".", "2", "5">>, "INTER", "REGULAR", "CREDIT", "STATE">>, "1A">>,
      <<<<<<"0", ".", "2", "5">>, "INTER", "REGULAR", "CREDIT", "UT">>, "1A">>,
      <<<<<<"3">>, "INTER", "REGULAR", "CREDIT", "STATE">>, "1B">>,
      <<<<<<"3">>, "INTER", "REGULAR", "CREDIT", "UT">>, "1B">>,
      <<<<<<"5">>, "INTER", "REGULAR", "CREDIT", "STATE">>, "1C">>,
      <<<<<<"5">>, "INTER", "REGULAR", "CREDIT", "UT">>, "1C">>,
      <<<<<<"1", "2">>, "INTER", "REGULAR", "CREDIT", "STATE">>, "1X">>,
      <<<<<<"1", "2">>, "INTER", "REGULAR", "CREDIT", "UT">>, "1X">>,
      <<<<<<"1", "8">>, "INTER", "REGULAR", "CREDIT", "STATE">>, "1Z">>,
      <<<<<<"1", "8">>, "INTER", "REGULAR", "CREDIT", "UT">>, "1Z">>,
      <<<<<<"2", "8">>, "INTER", "REGULAR", "CREDIT", "STATE">>, "1Y">>,
      <<<<<<"2", "8">>, "INTER", "REGULAR", "CREDIT", "UT">>, "1Y">>,
      <<<<<<"5">>, "INTRA", "REGULAR", "NON_CREDIT", "STATE">>, "3C_NC">>,
      <<<<<<"5">>, "INTRA", "REGULAR", "NON_CREDIT", "UT">>, "3C_UT_NC">>,
      <<<<<<"1", "2">>, "INTRA", "REGULAR", "NON_CREDIT", "STATE">>, "3X_NC">>,
      <<<<<<"1", "2">>, "INTRA", "REGULAR", "NON_CREDIT", "UT">>, "3X_UT_NC">>,
      <<<<<<"1", "8">>, "INTRA", "REGULAR", "NON_CREDIT", "STATE">>, "3Z_NC">>,
      <<<<<<"1", "8">>, "INTRA", "REGULAR", "NON_CREDIT", "UT">>, "3Z_UT_NC">>,
      <<<<<<"2", "8">>, "INTRA", "REGULAR", "NON_CREDIT", "STATE">>, "3Y_NC">>,
      <<<<<<"2", "8">>, "INTRA", "REGULAR", "NON_CREDIT", "UT">>, "3Y_UT_NC">>,
      <<<<<<"5">>, "INTER", "REGULAR", "NON_CREDIT", "STATE">>, "1C_NC">>,
      <<<<<<"5">>, "INTER", "REGULAR", "NON_CREDIT", "UT">>, "1C_NC">>,
      <<<<<<"1", "2">>, "INTER", "REGULAR", "NON_CREDIT", "STATE">>, "1X_NC">>,
      <<<<<<"1", "2">>, "INTER", "REGULAR", "NON_CREDIT", "UT">>, "1X_NC">>,
      <<<<<<"1", "8">>, "INTER", "REGULAR", "NON_CREDIT", "STATE">>, "1Z_NC">>,
      <<<<<<"1", "8">>, "INTER", "REGULAR", "NON_CREDIT", "UT">>, "1Z_NC">>,
      <<<<<<"2", "8">>, "INTER", "REGULAR", "NON_CREDIT", "STATE">>, "1Y_NC">>,
      <<<<<<"2", "8">>, "INTER", "REGULAR", "NON_CREDIT", "UT">>, "1Y_NC">>,
      <<<<<<"5">>, "INTRA", "RCM", "CREDIT", "STATE">>, "R3">>,
      <<<<<<"5">>, "INTRA", "RCM", "CREDIT", "UT">>, "R3_UT">>,
      <<<<<<"1", "2">>, "INTRA", "RCM", "CREDIT", "STATE">>, "R6">>,
      <<<<<<"1", "2">>, "INTRA", "RCM", "CREDIT", "UT">>, "R6_UT">>,
      <<<<<<"1", "8">>, "INTRA", "RCM", "CREDIT", "STATE">>, "R9">>,
      <<<<<<"1", "8">>, "INTRA", "RCM", "CREDIT", "UT">>, "R9_UT">>,
      <<<<<<"2", "8">>, "INTRA", "RCM", "CREDIT", "STATE">>, "R12">>,
      <<<<<<"2", "8">>, "INTRA", "RCM", "CREDIT", "UT">>, "R12_UT">>,
      <<<<<<"5">>, "INTER", "RCM", "CREDIT", "STATE">>, "R1">>,
      <<<<<<"5">>, "INTER", "RCM", "CREDIT", "UT">>, "R1">>,
      <<<<<<"1", "2">>, "INTER", "RCM", "CREDIT", "STATE">>, "R4">>,
      <<<<<<"1", "2">>, "INTER", "RCM", "CREDIT", "UT">>, "R4">>,
      <<<<<<"1", "8">>, "INTER", "RCM", "CREDIT", "STATE">>, "R7">>,
      <<<<<<"1", "8">>, "INTER", "RCM", "CREDIT", "UT">>, "R7">>,
      <<<<<<"2", "8">>, "INTER", "RCM", "CREDIT", "STATE">>, "R10">>,
      <<<<<<"2", "8">>, "INTER", "RCM", "CREDIT", "UT">>, "R10">>,
      <<<<<<"5">>, "INTRA", "RCM", "NON_CREDIT", "STATE">>, "R3_NC">>,
      <<<<<<"5">>, "INTRA", "RCM", "NON_CREDIT", "UT">>, "R3_UT_NC">>,
      <<<<<<"1", "2">>, "INTRA", "RCM", "NON_CREDIT", "STATE">>, "R6_NC">>,
      <<<<<<"1", "2">>, "INTRA", "RCM", "NON_CREDIT", "UT">>, "R6_UT_NC">>,
      <<<<<<"1", "8">>, "INTRA", "RCM", "NON_CREDIT", "STATE">>, "R9_NC">>,
      <<<<<<"1", "8">>, "INTRA", "RCM", "NON_CREDIT", "UT">>, "R9_UT_NC">>,
      <<<<<<"2", "8">>, "INTRA", "RCM", "NON_CREDIT", "STATE">>, "R12_NC">>,
      <<<<<<"2", "8">>, "INTRA", "RCM", "NON_CREDIT", "UT">>, "R12_UT_NC">>,
      <<<<<<"5">>, "INTER", "RCM", "NON_CREDIT", "STATE">>, "R1_NC">>,
      <<<<<<"5">>, "INTER", "RCM", "NON_CREDIT", "UT">>, "R1_NC">>,
      <<<<<<"1", "2">>, "INTER", "RCM", "NON_CREDIT", "STATE">>, "R4_NC">>,
      <<<<<<"1", "2">>, "INTER", "RCM", "NON_CREDIT", "UT">>, "R4_NC">>,
      <<<<<<"1", "8">>, "INTER", "RCM", "NON_CREDIT", "STATE">>, "R7_NC">>,
      <<<<<<"1", "8">>, "INTER", "RCM", "NON_CREDIT", "UT">>, "R7_NC">>,
      <<<<<<"2", "8">>, "INTER", "RCM", "NON_CREDIT", "STATE">>, "R10_NC">>,
      <<<<<<"2", "8">>, "INTER", "RCM", "NON_CREDIT", "UT">>, "R10_NC">>,
      <<<<<<"0">>, "INTRA", "REGULAR", "CREDIT", "STATE">>, "Z0">>,
      <<<<<<"0">>, "INTRA", "REGULAR", "CREDIT", "UT">>, "Z0">>,
      <<<<<<"0">>, "INTER", "REGULAR", "CREDIT", "STATE">>, "Z0">>,
      <<<<<<"0">>, "INTER", "REGULAR", "CREDIT", "UT">>, "Z0">> }

SAP_TAX_CODE_DESCRIPTIONS ==
    { <<"3A", "CGST-SGST 0.25% Input">>,
      <<"3B", "CGST-SGST 3% Input">>,
      <<"3C", "CGST-SGST 5% Input">>,
      <<"3X", "CGST-SGST 12% Input">>,
      <<"3Z", "CGST-SGST 18% Input">>,
      <<"3Y", "CGST-SGST 28% Input">>,
      <<"3A_UT", "CGST-UGST 0.25% Input">>,
      <<"3B_UT", "CGST-UGST 3% Input">>,
      <<"3C_UT", "CGST-UGST 5% Input">>,
      <<"3X_UT", "CGST-UGST 12% Input">>,
      <<"3Z_UT", "CGST-UGST 18% Input">>,
      <<"3Y_UT", "CGST-UGST 28% Input">>,
      <<"1A", "IGST 0.25% Input">>,
      <<"1B", "IGST 3% Input">>,
      <<"1C", "IGST 5% Input">>,
      <<"1X", "IGST 12% Input">>,
      <<"1Z", "IGST 18% Input">>,
      <<"1Y", "IGST 28% Input">>,
      <<"3C_NC", "CGST-SGST 5% Non-Credit">>,
      <<"3X_NC", "CGST-SGST 12% Non-Credit">>,
      <<"3Z_NC", "CGST-SGST 18% Non-Credit">>,
      <<"3Y_NC", "CGST-SGST 28% Non-Credit">>,
      <<"R3", "RCM CGST-SGST 5% Input">>,
      <<"R6", "RCM CGST-SGST 12% Input">>,
      <<"R9", "RCM CGST-SGST 18% Input">>,
      <<"R12", "RCM CGST-SGST 28% Input">>,
      <<"R1", "RCM IGST 5% Input">>,
      <<"R4", "RCM IGST 12% Input">>,
      <<"R7", "RCM IGST 18% Input">>,
      <<"R10", "RCM IGST 28% Input">>,
      <<"Z0", "Input Tax Exempt / Zero Rated">> }

ORACLE_TAX_CODE_MASTER ==
    { <<<<<<"5">>, "INTRA", "REGULAR", "CREDIT", "STATE">>, "ORA_CGST_SGST_5">>,
      <<<<<<"1", "2">>, "INTRA", "REGULAR", "CREDIT", "STATE">>, "ORA_CGST_SGST_12">>,
      <<<<<<"1", "8">>, "INTRA", "REGULAR", "CREDIT", "STATE">>, "ORA_CGST_SGST_18">>,
      <<<<<<"2", "8">>, "INTRA", "REGULAR", "CREDIT", "STATE">>, "ORA_CGST_SGST_28">>,
      <<<<<<"5">>, "INTER", "REGULAR", "CREDIT", "STATE">>, "ORA_IGST_5">>,
      <<<<<<"1", "2">>, "INTER", "REGULAR", "CREDIT", "STATE">>, "ORA_IGST_12">>,
      <<<<<<"1", "8">>, "INTER", "REGULAR", "CREDIT", "STATE">>, "ORA_IGST_18">>,
      <<<<<<"2", "8">>, "INTER", "REGULAR", "CREDIT", "STATE">>, "ORA_IGST_28">> }

ORACLE_TAX_CODE_DESCRIPTIONS ==
    { <<"ORA_CGST_SGST_5", "Oracle CGST-SGST 5% Input">>,
      <<"ORA_CGST_SGST_12", "Oracle CGST-SGST 12% Input">>,
      <<"ORA_CGST_SGST_18", "Oracle CGST-SGST 18% Input">>,
      <<"ORA_CGST_SGST_28", "Oracle CGST-SGST 28% Input">>,
      <<"ORA_IGST_5", "Oracle IGST 5% Input">>,
      <<"ORA_IGST_12", "Oracle IGST 12% Input">>,
      <<"ORA_IGST_18", "Oracle IGST 18% Input">>,
      <<"ORA_IGST_28", "Oracle IGST 28% Input">> }

MS360_TAX_CODE_MASTER ==
    { <<<<<<"5">>, "INTRA", "REGULAR", "CREDIT", "STATE">>, "MS_IN_CGST_SGST_5">>,
      <<<<<<"1", "2">>, "INTRA", "REGULAR", "CREDIT", "STATE">>, "MS_IN_CGST_SGST_12">>,
      <<<<<<"1", "8">>, "INTRA", "REGULAR", "CREDIT", "STATE">>, "MS_IN_CGST_SGST_18">>,
      <<<<<<"2", "8">>, "INTRA", "REGULAR", "CREDIT", "STATE">>, "MS_IN_CGST_SGST_28">>,
      <<<<<<"5">>, "INTER", "REGULAR", "CREDIT", "STATE">>, "MS_IN_IGST_5">>,
      <<<<<<"1", "2">>, "INTER", "REGULAR", "CREDIT", "STATE">>, "MS_IN_IGST_12">>,
      <<<<<<"1", "8">>, "INTER", "REGULAR", "CREDIT", "STATE">>, "MS_IN_IGST_18">>,
      <<<<<<"2", "8">>, "INTER", "REGULAR", "CREDIT", "STATE">>, "MS_IN_IGST_28">> }

MS360_TAX_CODE_DESCRIPTIONS ==
    { <<"MS_IN_CGST_SGST_5", "MS 365 CGST-SGST 5% Input">>,
      <<"MS_IN_CGST_SGST_12", "MS 365 CGST-SGST 12% Input">>,
      <<"MS_IN_CGST_SGST_18", "MS 365 CGST-SGST 18% Input">>,
      <<"MS_IN_CGST_SGST_28", "MS 365 CGST-SGST 28% Input">>,
      <<"MS_IN_IGST_5", "MS 365 IGST 5% Input">>,
      <<"MS_IN_IGST_12", "MS 365 IGST 12% Input">>,
      <<"MS_IN_IGST_18", "MS 365 IGST 18% Input">>,
      <<"MS_IN_IGST_28", "MS 365 IGST 28% Input">> }

\* dict.get(key, default) on a dict given as its set of <<key, value>> pairs.
DictGet(dict, key, default) ==
    IF \E p \in dict : p[1] = key
    THEN (CHOOSE p \in dict : p[1] = key)[2]
    ELSE default

DictKeys(dict) == {p[1] : p \in dict}

\* Python's None where a code is expected.
NoneCode == "<None>"

\* --------------------------------------------------------------- tools

LookupConfidence == 9500

\* The union-territory set extract_state_code_from_gstin consults.
UtSet(erp_type) ==
    IF erp_type = "ORACLE" THEN ORACLE_UNION_TERRITORIES
    ELSE IF erp_type = "MS_365" THEN MS360_UNION_TERRITORIES
    ELSE SAP_UNION_TERRITORIES

\* GstinPatternMatches with a digit demanded as the last character.
GstinPatternMatchesDigitCheck(gstin) ==
    /\ Len(gstin) = 15
    /\ \A i \in 1..2 : gstin[i] \in Digits
    /\ \A i \in 3..7 : gstin[i] \in Upper
    /\ \A i \in 8..11 : gstin[i] \in Digits
    /\ gstin[12] \in Upper
    /\ gstin[13] \in (Digits \ {"0"}) \cup Upper
    /\ gstin[14] = "Z"
    /\ gstin[15] \in Digits

\* re.match of the GSTIN pattern.
GstinPatternMatches(gstin) ==
    /\ Len(gstin) = 15
    /\ \A i \in 1..2 : gstin[i] \in Digits
    /\ \A i \in 3..7 : gstin[i] \in Upper
    /\ \A i \in 8..11 : gstin[i] \in Digits
    /\ gstin[12] \in Upper
    /\ gstin[13] \in (Digits \ {"0"}) \cup Upper
    /\ gstin[14] = "Z"
    /\ gstin[15] \in Digits \cup Upper

\* Python's truth value of an Optional[str].
Falsy(text) == text = NoneText \/ text = <<>>

\* extract_state_code_from_gstin without the match against the pattern.
extract_state_code_unchecked_shape(gstin, erp_type) ==
    IF Falsy(gstin) \/ Len(gstin) # 15
    THEN [state_code |-> <<>>, is_valid |-> FALSE, is_union_territory |-> FALSE,
          error |-> "GSTIN must be 15 characters"]
    ELSE [state_code |-> SubSeq(gstin, 1, 2), is_valid |-> TRUE,
          is_union_territory |-> SubSeq(gstin, 1, 2) \in UtSet(erp_type),
          error |-> "None"]

extract_state_code_from_gstin(gstin, erp_type) ==
    IF Falsy(gstin) \/ Len(gstin) # 15
    THEN [state_code |-> <<>>, is_valid |-> FALSE, is_union_territory |-> FALSE,
          error |-> "GSTIN must be 15 characters"]
    ELSE IF ~GstinPatternMatches(gstin)
    THEN [state_code |-> <<>>, is_valid |-> FALSE, is_union_territory |-> FALSE,
          error |-> "Invalid GSTIN format"]
    ELSE [state_code |-> SubSeq(gstin, 1, 2), is_valid |-> TRUE,
          is_union_territory |-> SubSeq(gstin, 1, 2) \in UtSet(erp_type),
          error |-> "None"]

\* determine_transaction_type giving UNKNOWN only when both parties are invalid.
determine_transaction_type_both_invalid(supplier_gstin, buyer_gstin, erp_type) ==
    LET supplier_result == extract_state_code_from_gstin(supplier_gstin, erp_type)
        buyer_result == extract_state_code_from_gstin(buyer_gstin, erp_type)
        is_same == supplier_result.state_code = buyer_result.state_code
    IN  IF ~supplier_result.is_valid /\ ~buyer_result.is_valid
        THEN [transaction_type |-> "UNKNOWN",
              supplier_state |-> supplier_result.state_code,
              buyer_state |-> buyer_result.state_code,
              is_same_state |-> FALSE]
        ELSE [transaction_type |-> IF is_same THEN "INTRA" ELSE "INTER",
              supplier_state |-> supplier_result.state_code,
              buyer_state |-> buyer_result.state_code,
              is_same_state |-> is_same]

\* determine_transaction_type testing the validity of the supplier only.
determine_transaction_type_supplier_only(supplier_gstin, buyer_gstin, erp_type) ==
    LET supplier_result == extract_state_code_from_gstin(supplier_gstin, erp_type)
        buyer_result == extract_state_code_from_gstin(buyer_gstin, erp_type)
        is_same == supplier_result.state_code = buyer_result.state_code
    IN  IF ~supplier_result.is_valid
        THEN [transaction_type |-> "UNKNOWN",
              supplier_state |-> supplier_result.state_code,
              buyer_state |-> buyer_result.state_code,
              is_same_state |-> FALSE]
        ELSE [transaction_type |-> IF is_same THEN "INTRA" ELSE "INTER",
              supplier_state |-> supplier_result.state_code,
              buyer_state |-> buyer_result.state_code,
              is_same_state |-> is_same]

determine_transaction_type(supplier_gstin, buyer_gstin, erp_type) ==
    LET supplier_result == extract_state_code_from_gstin(supplier_gstin, erp_type)
        buyer_result == extract_state_code_from_gstin(buyer_gstin, erp_type)
        is_same == supplier_result.state_code = buyer_result.state_code
    IN  IF ~supplier_result.is_valid \/ ~buyer_result.is_valid
        THEN [transaction_type |-> "UNKNOWN",
              supplier_state |-> supplier_result.state_code,
              buyer_state |-> buyer_result.state_code,
              is_same_state |-> FALSE]
        ELSE [transaction_type |-> IF is_same THEN "INTRA" ELSE "INTER",
              supplier_state |-> supplier_result.state_code,
              buyer_state |-> buyer_result.state_code,
              is_same_state |-> is_same]

\* Whether float(text) succeeds: digits with at most one decimal point and
\* at least one digit (signs, exponents, inf and nan are outside the model's
\* alphabet).
FloatParses(text) ==
    /\ \A i \in 1..Len(text) : text[i] \in Digits \cup {"."}
    /\ Cardinality({i \in 1..Len(text) : text[i] = "."}) <= 1
    /\ \E i \in 1..Len(text) : text[i] \in Digits

\* float(text) in hundredths, for a text that parses (digits after the
\* second decimal are outside the model's precision and dropped).
FloatValue(text) ==
    LET dots == {i \in 1..Len(text) : text[i] = "."}
        p == IF dots = {} THEN Len(text) + 1 ELSE CHOOSE i \in dots : TRUE
        whole == SubSeq(text, 1, p - 1)
        frac == SubSeq(text, p + 1, Len(text))
        d1 == IF Len(frac) >= 1 THEN DigitVal(frac[1]) ELSE 0
        d2 == IF Len(frac) >= 2 THEN DigitVal(frac[2]) ELSE 0
    IN  100 * TextToNat(whole) + 10 * d1 + d2

\* rate_str.replace('%', '').strip()
RateText(rate_str) == Strip(RemoveChar(rate_str, "%"))

RECURSIVE SumRates(_)
SumRates(tax_list) ==
    IF Len(tax_list) = 0 THEN 0
    ELSE FloatValue(RateText(Head(tax_list)[2])) + SumRates(Tail(tax_list))

\* The sum of the entries that parse.
RECURSIVE SumParsing(_)
SumParsing(tax_list) ==
    IF Len(tax_list) = 0 THEN 0
    ELSE (IF FloatParses(RateText(Head(tax_list)[2]))
          THEN FloatValue(RateText(Head(tax_list)[2])) ELSE 0)
         + SumParsing(Tail(tax_list))

\* calculate_total_tax_rate skipping the entries that do not parse.
calculate_total_tax_rate_skipping(tax_list) == SumParsing(tax_list)

\* The sum of the entries that precede the first one that does not parse.
RECURSIVE SumParsedPrefix(_)
SumParsedPrefix(tax_list) ==
    IF Len(tax_list) = 0 \/ ~FloatParses(RateText(Head(tax_list)[2])) THEN 0
    ELSE FloatValue(RateText(Head(tax_list)[2])) + SumParsedPrefix(Tail(tax_list))

\* calculate_total_tax_rate returning the running total when an entry fails.
calculate_total_tax_rate_partial(tax_list) == SumParsedPrefix(tax_list)

calculate_total_tax_rate(tax_list) ==
    IF \A i \in 1..Len(tax_list) : FloatParses(RateText(tax_list[i][2]))
    THEN SumRates(tax_list)
    ELSE 0

UnregisteredMarks ==
    { <<"U", "R", "P">>,
      <<"U", "N", "R", "E", "G", "I", "S", "T", "E", "R", "E", "D">>,
      <<"N", "A">> }

rcm_keywords ==
    { <<"r", "e", "v", "e", "r", "s", "e", " ", "c", "h", "a", "r", "g", "e">>,
      <<"r", "c", "m">>,
      <<"g", "t", "a">>,
      <<"l", "e", "g", "a", "l">>,
      <<"a", "d", "v", "o", "c", "a", "t", "e">>,
      <<"a", "r", "b", "i", "t", "r", "a", "t", "i", "o", "n">> }

\* check_rcm_applicability comparing the identifier without upper().
check_rcm_applicability_case_sensitive(supplier_gstin, supplier_country, item_description) ==
    IF supplier_country # "IN" THEN TRUE
    ELSE IF Falsy(supplier_gstin) \/ supplier_gstin \in UnregisteredMarks
    THEN TRUE
    ELSE \E keyword \in rcm_keywords : Contains(StrLower(item_description), keyword)

check_rcm_applicability(supplier_gstin, supplier_country, item_description) ==
    IF supplier_country # "IN" THEN TRUE
    ELSE IF Falsy(supplier_gstin) \/ StrUpper(supplier_gstin) \in UnregisteredMarks
    THEN TRUE
    ELSE \E keyword \in rcm_keywords : Contains(StrLower(item_description), keyword)

\* NormalizeRate stripping the zeros only ("18.").
NormalizeRateKeepingPoint(tax_rate) == RStrip(FloatStr(tax_rate), "0")

\* str(tax_rate).rstrip('0').rstrip('.')
NormalizeRate(tax_rate) == RStrip(RStrip(FloatStr(tax_rate), "0"), ".")

\* TaxMaster ignoring the selector.
TaxMasterAlwaysSap(erp_type) == SAP_TAX_CODE_MASTER

TaxMaster(erp_type) ==
    IF erp_type = "ORACLE" THEN ORACLE_TAX_CODE_MASTER
    ELSE IF erp_type = "MS_365" THEN MS360_TAX_CODE_MASTER
    ELSE SAP_TAX_CODE_MASTER

DescMaster(erp_type) ==
    IF erp_type = "ORACLE" THEN ORACLE_TAX_CODE_DESCRIPTIONS
    ELSE IF erp_type = "MS_365" THEN MS360_TAX_CODE_DESCRIPTIONS
    ELSE SAP_TAX_CODE_DESCRIPTIONS

LookupKey(tax_rate, transaction_type, charge_type, credit_type, state_type) ==
    <<NormalizeRate(tax_rate), transaction_type, charge_type, credit_type, state_type>>

\* lookup_tax_code with the rate text left as str(tax_rate) gives ("18.0").
lookup_tax_code_raw_rate(tax_rate, transaction_type, charge_type, credit_type, state_type, erp_type) ==
    LET rate_str == FloatStr(tax_rate)
        lookup_key == <<rate_str, transaction_type, charge_type, credit_type, state_type>>
        tax_code == DictGet(TaxMaster(erp_type), lookup_key, NoneCode)
    IN  IF tax_code \notin {NoneCode, ""}
        THEN [tax_code |-> tax_code,
              tax_description |->
                  IF tax_code \in DictKeys(DescMaster(erp_type))
                  THEN Plain(DictGet(DescMaster(erp_type), tax_code, ""))
                  ELSE Msg("Tax Code {} - {}%", <<tax_code>>, rate_str, 0),
              confidence |-> LookupConfidence,
              found |-> TRUE]
        ELSE [tax_code |-> "MANUAL_REVIEW",
              tax_description |->
                  Msg("No mapping found: rate={}%, type={}, charge={}",
                      <<transaction_type, charge_type>>, rate_str, 0),
              confidence |-> 0,
              found |-> FALSE]

lookup_tax_code(tax_rate, transaction_type, charge_type, credit_type, state_type, erp_type) ==
    LET rate_str == NormalizeRate(tax_rate)
        lookup_key == LookupKey(tax_rate, transaction_type, charge_type,
                                credit_type, state_type)
        tax_code == DictGet(TaxMaster(erp_type), lookup_key, NoneCode)
    IN  IF tax_code \notin {NoneCode, ""}
        THEN [tax_code |-> tax_code,
              tax_description |->
                  IF tax_code \in DictKeys(DescMaster(erp_type))
                  THEN Plain(DictGet(DescMaster(erp_type), tax_code, ""))
                  ELSE Msg("Tax Code {} - {}%", <<tax_code>>, rate_str, 0),
              confidence |-> LookupConfidence,
              found |-> TRUE]
        ELSE [tax_code |-> "MANUAL_REVIEW",
              tax_description |->
                  Msg("No mapping found: rate={}%, type={}, charge={}",
                      <<transaction_type, charge_type>>, rate_str, 0),
              confidence |-> 0,
              found |-> FALSE]

\* --------------------------------------------------------------- nodes

ConfidenceThreshold == 6000

\* str.startswith of a tax code, over the codes of the masters and the
\* sentinels ('1', '3' and 'R' are the only prefixes the code tests).
StartsWith(code, ch) ==
    CASE ch = "1" ->
           code \in { "1A", "1B", "1C", "1C_NC", "1X", "1X_NC", "1Y", "1Y_NC",
                      "1Z", "1Z_NC" }
      [] ch = "3" ->
           code \in { "3A", "3A_UT", "3B", "3B_UT", "3C", "3C_NC", "3C_UT",
                      "3C_UT_NC", "3X", "3X_NC", "3X_UT", "3X_UT_NC", "3Y",
                      "3Y_NC", "3Y_UT", "3Y_UT_NC", "3Z", "3Z_NC", "3Z_UT",
                      "3Z_UT_NC" }
      [] ch = "R" ->
           code \in { "R1", "R10", "R10_NC", "R12", "R12_NC", "R12_UT",
                      "R12_UT_NC", "R1_NC", "R3", "R3_NC", "R3_UT", "R3_UT_NC",
                      "R4", "R4_NC", "R6", "R6_NC", "R6_UT", "R6_UT_NC", "R7",
                      "R7_NC", "R9", "R9_NC", "R9_UT", "R9_UT_NC" }
      [] OTHER -> FALSE

\* dict.get(key, default) on a dict given as a function.
GetOr(dict, key, default) == IF key \in DOMAIN dict THEN dict[key] ELSE default

\* MergeUpdates without the reducer: every key is overwritten.
MergeUpdatesOverwriting(state, updates) ==
    [f \in DOMAIN state |->
        IF f \notin DOMAIN updates THEN state[f] ELSE updates[f]]

\* The merge of a node's updates into the state: the messages and errors
\* channels are reduced by operator.add (list append), every other key is
\* overwritten.
MergeUpdates(state, updates) ==
    [f \in DOMAIN state |->
        IF f \notin DOMAIN updates THEN state[f]
        ELSE IF f \in {"messages", "errors"} THEN state[f] \o updates[f]
        ELSE updates[f]]

\* preprocessing_node recording no error for an invalid identifier.
preprocessing_node_without_errors(state) ==
    LET erp_type == state.erp_type
        supplier_result == extract_state_code_from_gstin(state.supplier_gstin, erp_type)
        buyer_result == extract_state_code_from_gstin(state.buyer_gstin, erp_type)
        txn_result == determine_transaction_type(state.supplier_gstin,
                                                 state.buyer_gstin, erp_type)
        total_rate == calculate_total_tax_rate(state.tax)
        is_rcm == check_rcm_applicability(state.supplier_gstin,
                                          state.supplier_country,
                                          state.item_description)
        messages ==
            <<Mc("Supplier state: {}", supplier_result.state_code),
              Mc("Buyer state: {}", buyer_result.state_code)>> \o
            (IF supplier_result.is_union_territory
             THEN <<Mc("State {} is a Union Territory", supplier_result.state_code)>>
             ELSE <<>>) \o
            <<Ms("Transaction type: {}state", txn_result.transaction_type),
              Mn("Total tax rate: {}%", total_rate)>> \o
            (IF is_rcm THEN <<M0("RCM applicable")>> ELSE <<>>)
    IN  [supplier_state_code |-> supplier_result.state_code,
         buyer_state_code |-> buyer_result.state_code,
         is_union_territory |-> supplier_result.is_union_territory,
         transaction_type |-> txn_result.transaction_type,
         total_tax_rate |-> total_rate,
         is_rcm |-> is_rcm,
         is_credit_eligible |-> TRUE,
         messages |-> messages,
         errors |-> <<>>]

\* The preprocessing node's updates.  Its except branch is not modelled:
\* every tool it calls catches its own exceptions.
preprocessing_node(state) ==
    LET erp_type == state.erp_type
        supplier_result == extract_state_code_from_gstin(state.supplier_gstin, erp_type)
        buyer_result == extract_state_code_from_gstin(state.buyer_gstin, erp_type)
        txn_result == determine_transaction_type(state.supplier_gstin,
                                                 state.buyer_gstin, erp_type)
        total_rate == calculate_total_tax_rate(state.tax)
        is_rcm == check_rcm_applicability(state.supplier_gstin,
                                          state.supplier_country,
                                          state.item_description)
        errors ==
            (IF ~supplier_result.is_valid
             THEN <<Ms("Invalid supplier GSTIN: {}", supplier_result.error)>>
             ELSE <<>>) \o
            (IF ~buyer_result.is_valid
             THEN <<Ms("Invalid buyer GSTIN: {}", buyer_result.error)>>
             ELSE <<>>)
        messages ==
            <<Mc("Supplier state: {}", supplier_result.state_code),
              Mc("Buyer state: {}", buyer_result.state_code)>> \o
            (IF supplier_result.is_union_territory
             THEN <<Mc("State {} is a Union Territory", supplier_result.state_code)>>
             ELSE <<>>) \o
            <<Ms("Transaction type: {}state", txn_result.transaction_type),
              Mn("Total tax rate: {}%", total_rate)>> \o
            (IF is_rcm THEN <<M0("RCM applicable")>> ELSE <<>>)
    IN  [supplier_state_code |-> supplier_result.state_code,
         buyer_state_code |-> buyer_result.state_code,
         is_union_territory |-> supplier_result.is_union_territory,
         transaction_type |-> txn_result.transaction_type,
         total_tax_rate |-> total_rate,
         is_rcm |-> is_rcm,
         is_credit_eligible |-> TRUE,
         messages |-> messages,
         errors |-> errors]

\* LookupArguments with the charge type fixed.
LookupArgumentsRegularCharge(state) ==
    [tax_rate |-> state.total_tax_rate,
     transaction_type |-> state.transaction_type,
     charge_type |-> "REGULAR",
     credit_type |-> IF state.is_credit_eligible THEN "CREDIT" ELSE "NON_CREDIT",
     state_type |-> IF state.is_union_territory THEN "UT" ELSE "STATE",
     erp_type |-> state.erp_type]

\* LookupArguments taking the region type from the buyer as well.
LookupArgumentsBuyerRegion(state) ==
    [tax_rate |-> state.total_tax_rate,
     transaction_type |-> state.transaction_type,
     charge_type |-> IF state.is_rcm THEN "RCM" ELSE "REGULAR",
     credit_type |-> IF state.is_credit_eligible THEN "CREDIT" ELSE "NON_CREDIT",
     state_type |-> IF state.is_union_territory
                       \/ state.buyer_state_code \in SAP_UNION_TERRITORIES
                    THEN "UT" ELSE "STATE",
     erp_type |-> state.erp_type]

\* The arguments the resolution node passes to the lookup.
LookupArguments(state) ==
    [tax_rate |-> state.total_tax_rate,
     transaction_type |-> state.transaction_type,
     charge_type |-> IF state.is_rcm THEN "RCM" ELSE "REGULAR",
     credit_type |-> IF state.is_credit_eligible THEN "CREDIT" ELSE "NON_CREDIT",
     state_type |-> IF state.is_union_territory THEN "UT" ELSE "STATE",
     erp_type |-> state.erp_type]

\* DeterminationLookup with the credit type inverted.
DeterminationLookupNonCredit(state) ==
    lookup_tax_code(state.total_tax_rate,
                    state.transaction_type,
                    IF state.is_rcm THEN "RCM" ELSE "REGULAR",
                    IF state.is_credit_eligible THEN "NON_CREDIT" ELSE "CREDIT",
                    IF state.is_union_territory THEN "UT" ELSE "STATE",
                    state.erp_type)

\* The lookup the resolution node performs first.
DeterminationLookup(state) ==
    LET a == LookupArguments(state)
    IN  lookup_tax_code(a.tax_rate, a.transaction_type, a.charge_type,
                        a.credit_type, a.state_type, a.erp_type)

\* TokenUpdates leaving the reasoning tokens out of the total.
TokenUpdatesWithoutReasoning(state, prompt_tokens, completion_tokens, reasoning_tokens) ==
    [total_prompt_tokens |-> state.total_prompt_tokens + prompt_tokens,
     total_completion_tokens |-> state.total_completion_tokens + completion_tokens,
     total_reasoning_tokens |-> state.total_reasoning_tokens + reasoning_tokens,
     total_tokens |-> state.total_prompt_tokens + prompt_tokens
                      + state.total_completion_tokens + completion_tokens]

\* The tail of the resolution node: the token counters added to the state's.
TokenUpdates(state, prompt_tokens, completion_tokens, reasoning_tokens) ==
    [total_prompt_tokens |-> state.total_prompt_tokens + prompt_tokens,
     total_completion_tokens |-> state.total_completion_tokens + completion_tokens,
     total_reasoning_tokens |-> state.total_reasoning_tokens + reasoning_tokens,
     total_tokens |-> state.total_prompt_tokens + prompt_tokens
                      + state.total_completion_tokens + completion_tokens
                      + state.total_reasoning_tokens + reasoning_tokens]

\* Record union: the fields of both, those of b winning.
Join(a, b) ==
    [f \in DOMAIN a \cup DOMAIN b |-> IF f \in DOMAIN b THEN b[f] ELSE a[f]]

\* The resolution node's updates when the lookup hits.
DeterminationHit(state, lookup_result) ==
    Join(TokenUpdates(state, 0, 0, 0),
         [tax_code |-> lookup_result.tax_code,
          tax_description |-> lookup_result.tax_description,
          confidence |-> lookup_result.confidence,
          messages |-> <<Ms("Tax code found in master: {}", lookup_result.tax_code)>>,
          errors |-> <<>>])

\* The token usage harvested from the provider metadata.
HasUsage(llm_output) == "token_usage" \in DOMAIN llm_output

PromptTokens(llm_output) ==
    IF HasUsage(llm_output)
    THEN GetOr(llm_output.token_usage, "prompt_tokens", 0) ELSE 0

CompletionTokens(llm_output) ==
    IF HasUsage(llm_output)
    THEN GetOr(llm_output.token_usage, "completion_tokens", 0) ELSE 0

\* ReasoningTokens reading the count from the usage record itself.
ReasoningTokensFromUsage(llm_output) ==
    IF HasUsage(llm_output)
    THEN GetOr(llm_output.token_usage, "reasoning_tokens", 0) ELSE 0

ReasoningTokens(llm_output) ==
    IF HasUsage(llm_output)
       /\ "completion_tokens_details" \in DOMAIN llm_output.token_usage
    THEN GetOr(llm_output.token_usage.completion_tokens_details,
               "reasoning_tokens", 0)
    ELSE 0

\* The resolution node's updates when the lookup misses and the fallback
\* call returns (llm_response, llm_output).
DeterminationLlm(state, llm_response, llm_output) ==
    Join(TokenUpdates(state, PromptTokens(llm_output),
                      CompletionTokens(llm_output), ReasoningTokens(llm_output)),
         [tax_code |-> llm_response.tax_code,
          tax_description |-> Plain(llm_response.reasoning),
          confidence |-> llm_response.confidence,
          messages |-> <<M0("No direct match - using LLM for determination"),
                         Ms("LLM determined tax code: {}", llm_response.tax_code)>>,
          errors |-> <<>>])

\* DeterminationLlmError with the pipeline-error code.
DeterminationLlmErrorAsError(state, llm_error) ==
    Join(TokenUpdates(state, 0, 0, 0),
         [tax_code |-> "ERROR",
          tax_description |-> Plain("Error in automated determination"),
          confidence |-> 0,
          messages |-> <<M0("No direct match - using LLM for determination")>>,
          errors |-> <<Ms("LLM error: {}", llm_error)>>])

\* The resolution node's updates when the fallback call raises llm_error.
DeterminationLlmError(state, llm_error) ==
    Join(TokenUpdates(state, 0, 0, 0),
         [tax_code |-> "MANUAL_REVIEW_REQUIRED",
          tax_description |-> Plain("Error in automated determination"),
          confidence |-> 0,
          messages |-> <<M0("No direct match - using LLM for determination")>>,
          errors |-> <<Ms("LLM error: {}", llm_error)>>])

\* The resolution node's updates when an exception e is raised in the miss
\* branch outside the fallback call (the node's outer except).
DeterminationError(state, e) ==
    Join(TokenUpdates(state, 0, 0, 0),
         [tax_code |-> "ERROR",
          tax_description |-> Plain(e),
          confidence |-> 0,
          messages |-> <<M0("No direct match - using LLM for determination")>>,
          errors |-> <<Ms("Tax determination error: {}", e)>>])

\* validation_node without its check of the code against the sentinels.
validation_node_no_sentinel_check(state) ==
    LET low == state.confidence < ConfidenceThreshold
        errors == IF low THEN <<M0("Confidence below threshold (0.6)")>> ELSE <<>>
        messages ==
            (IF low THEN <<Mn("Low confidence: {}", state.confidence)>> ELSE <<>>) \o
            (IF Len(errors) = 0 THEN <<M0("All validations passed")>> ELSE <<>>)
    IN  [messages |-> messages, errors |-> errors]

\* validation_node vetoing the code when the confidence is low.
validation_node_vetoing(state) ==
    LET low == state.confidence < ConfidenceThreshold
        undetermined == state.tax_code \in {"MANUAL_REVIEW_REQUIRED", "ERROR", ""}
        errors ==
            (IF low THEN <<M0("Confidence below threshold (0.6)")>> ELSE <<>>) \o
            (IF undetermined THEN <<M0("Tax code not automatically determined")>>
             ELSE <<>>)
    IN  [messages |-> <<>>, errors |-> errors,
         tax_code |-> IF low THEN "MANUAL_REVIEW_REQUIRED" ELSE state.tax_code]

\* validation_node failing a confidence of exactly the threshold.
validation_node_inclusive_threshold(state) ==
    LET tax_code == state.tax_code
        low == state.confidence <= ConfidenceThreshold
        undetermined == tax_code \in {"MANUAL_REVIEW_REQUIRED", "ERROR", ""}
        errors ==
            (IF low THEN <<M0("Confidence below threshold (0.6)")>> ELSE <<>>) \o
            (IF undetermined THEN <<M0("Tax code not automatically determined")>>
             ELSE <<>>)
        messages ==
            (IF low THEN <<Mn("Low confidence: {}", state.confidence)>> ELSE <<>>) \o
            (IF undetermined THEN <<M0("Tax code requires manual review")>>
             ELSE <<>>) \o
            (IF Len(errors) = 0 THEN <<M0("All validations passed")>> ELSE <<>>)
    IN  [messages |-> messages, errors |-> errors]

\* The validation node's updates.
validation_node(state) ==
    LET tax_code == state.tax_code
        low == state.confidence < ConfidenceThreshold
        undetermined == tax_code \in {"MANUAL_REVIEW_REQUIRED", "ERROR", ""}
        errors ==
            (IF low THEN <<M0("Confidence below threshold (0.6)")>> ELSE <<>>) \o
            (IF undetermined THEN <<M0("Tax code not automatically determined")>>
             ELSE <<>>)
        messages ==
            (IF low THEN <<Mn("Low confidence: {}", state.confidence)>> ELSE <<>>) \o
            (IF undetermined THEN <<M0("Tax code requires manual review")>>
             ELSE <<>>) \o
            (IF state.transaction_type = "INTER" /\ StartsWith(tax_code, "1")
             THEN <<M0("IGST tax code matches interstate transaction")>>
             ELSE IF state.transaction_type = "INTRA"
                     /\ (StartsWith(tax_code, "3") \/ StartsWith(tax_code, "R"))
             THEN <<M0("CGST-SGST tax code matches intrastate transaction")>>
             ELSE <<>>) \o
            (IF Len(errors) = 0 THEN <<M0("All validations passed")>> ELSE <<>>)
    IN  [messages |-> messages, errors |-> errors]

\* --------------------------------------------------------------- graph

EntryPoint == "preprocessing"

\* NextNode with an edge from preprocessing straight to validation.
NextNodeSkipping(node) ==
    CASE node = "preprocessing" -> "validation"
      [] node = "tax_determination" -> "validation"
      [] node = "validation" -> "END"

\* The edges of the workflow graph.
NextNode(node) ==
    CASE node = "preprocessing" -> "tax_determination"
      [] node = "tax_determination" -> "validation"
      [] node = "validation" -> "END"

\* --------------------------------------------------------------- agent

\* The largest number of lines of a request.
MaxLines == 2

ErpTypes == {"SAP_ECC", "ORACLE", "MS_365"}

\* The line items requests are built from: the three of the usage example,
\* one whose rate (7%) no master maps, and one from a registered supplier
\* whose description names a reverse-charge service.
LinePool ==
    <<[item_description |->
          <<"P", "r", "o", "f", "e", "s", "s", "i", "o", "n", "a", "l",
          " ", "c", "o", "n", "s", "u", "l", "t", "i", "n", "g", " ", "s",
          "e", "r", "v", "i", "c", "e", "s">>,
       supplier_gstin |->
          <<"2", "7", "A", "A", "B", "C", "U", "9", "6", "0", "3", "R",
          "1", "Z", "M">>,
       supplier_country |-> "IN",
       buyer_gstin |->
          <<"2", "7", "A", "A", "D", "C", "B", "2", "5", "0", "1", "D",
          "1", "Z", "F">>,
       tax |-> <<<<"CGST", <<"9", "%">>>>, <<"SGST", <<"9", "%">>>>>>],
      [item_description |->
          <<"S", "o", "f", "t", "w", "a", "r", "e", " ", "l", "i", "c",
          "e", "n", "s", "e">>,
       supplier_gstin |->
          <<"2", "9", "A", "A", "B", "C", "X", "1", "2", "3", "4", "F",
          "1", "Z", "5">>,
       supplier_country |-> "IN",
       buyer_gstin |->
          <<"2", "7", "A", "A", "D", "C", "B", "2", "5", "0", "1", "D",
          "1", "Z", "F">>,
       tax |-> <<<<"IGST", <<"1", "8", "%">>>>>>],
      [item_description |->
          <<"L", "e", "g", "a", "l", " ", "s", "e", "r", "v", "i", "c",
          "e", "s", " ", "f", "r", "o", "m", " ", "u", "n", "r", "e", "g",
          "i", "s", "t", "e", "r", "e", "d", " ", "v", "e", "n", "d", "o",
          "r">>,
       supplier_gstin |->
          <<"U", "N", "R", "E", "G", "I", "S", "T", "E", "R", "E", "D">>,
       supplier_country |-> "IN",
       buyer_gstin |->
          <<"2", "7", "A", "A", "D", "C", "B", "2", "5", "0", "1", "D",
          "1", "Z", "F">>,
       tax |-> <<<<"CGST", <<"9", "%">>>>, <<"SGST", <<"9", "%">>>>>>],
      [item_description |->
          <<"M", "a", "c", "h", "i", "n", "e", " ", "p", "a", "r", "t",
          "s">>,
       supplier_gstin |->
          <<"0", "7", "A", "A", "A", "C", "D", "1", "2", "3", "4", "E",
          "1", "Z", "2">>,
       supplier_country |-> "IN",
       buyer_gstin |->
          <<"0", "7", "A", "A", "D", "C", "B", "2", "5", "0", "1", "D",
          "1", "Z", "F">>,
       tax |-> <<<<"CGST", <<"3", ".", "5", "%">>>>, <<"SGST", <<"3", ".", "5", "%">>>>>>],
      [item_description |->
          <<"L", "e", "g", "a", "l", " ", "a", "d", "v", "i", "s", "o",
          "r", "y">>,
       supplier_gstin |->
          <<"2", "9", "A", "A", "B", "C", "X", "1", "2", "3", "4", "F",
          "1", "Z", "5">>,
       supplier_country |-> "IN",
       buyer_gstin |->
          <<"2", "7", "A", "A", "D", "C", "B", "2", "5", "0", "1", "D",
          "1", "Z", "F">>,
       tax |-> <<<<"IGST", <<"1", "8", "%">>>>>>]>>

Lines == {LinePool[i] : i \in 1..Len(LinePool)}

Requests ==
    { [lines |-> ls, erp_type |-> e] :
        ls \in UNION {[1..n -> Lines] : n \in 0..MaxLines}, e \in ErpTypes }

\* What the fallback collaborator may return: a structured response and the
\* provider metadata, whose usage record and fields may each be absent.
LlmReplies ==
    { [response |-> [tax_code |-> "1Z", reasoning |-> "interstate supply",
                     confidence |-> 9000],
       output |-> [token_usage |->
                     [prompt_tokens |-> 120, completion_tokens |-> 30,
                      completion_tokens_details |-> [reasoning_tokens |-> 7]]]],
      [response |-> [tax_code |-> "MANUAL_REVIEW_REQUIRED",
                     reasoning |-> "cannot decide", confidence |-> 7000],
       output |-> [none |-> TRUE]],
      [response |-> [tax_code |-> "", reasoning |-> "no code", confidence |-> 5999],
       output |-> [model_name |-> "m"]],
      [response |-> [tax_code |-> "R7", reasoning |-> "reverse charge",
                     confidence |-> 6000],
       output |-> [token_usage |-> [completion_tokens |-> 30]]],
      [response |-> [tax_code |-> "ERROR", reasoning |-> "failed",
                     confidence |-> 8555],
       output |-> [token_usage |->
                     [prompt_tokens |-> 120,
                      completion_tokens_details |-> [audio_tokens |-> 1]]]],
      [response |-> [tax_code |-> "3Z", reasoning |-> "a guess",
                     confidence |-> 2500],
       output |-> [token_usage |->
                     [prompt_tokens |-> 120, completion_tokens |-> 30]]] }

\* The messages of the exceptions that may be raised (one message: a second
\* one doubles the outcomes of every line and adds no path).
ExceptionTexts == {"boom"}

VARIABLES
    request,                    \* the TaggingRequest being processed
    pc,                         \* the position of process_tagging_request
    idx,                        \* the loop index (0-based, as in the code)
    st,                         \* the graph state of the line being run
    results,                    \* the list of TaxTaggingResult
    total_confidence,
    manual_review_count,
    error_count,
    aggregate_prompt_tokens,
    aggregate_completion_tokens,
    aggregate_reasoning_tokens,
    aggregate_total_tokens,
    summary,                    \* the summary, once built
    prov,                       \* history: how the current line was resolved
    trace,                      \* history: the nodes entered for the current line
    llm_reply,                  \* history: what the fallback call returned
    outcomes,                   \* history: prov of every result
    calls,                      \* history: the calls made for the current line
    tool,                       \* a tool call and its result (tool specifications)
    parked                      \* a second request's locals while it is suspended

vars == <<request, pc, idx, st, results, total_confidence, manual_review_count,
          error_count, aggregate_prompt_tokens, aggregate_completion_tokens,
          aggregate_reasoning_tokens, aggregate_total_tokens, summary,
          prov, trace, llm_reply, outcomes, calls, tool, parked>>

counters == <<results, total_confidence, manual_review_count, error_count,
              aggregate_prompt_tokens, aggregate_completion_tokens,
              aggregate_reasoning_tokens, aggregate_total_tokens, outcomes>>

Idle == [idle |-> TRUE]

\* No lookup performed and no fallback call completed.
NoCalls == [lookup |-> Idle, llm |-> 0]

NoSummary == [built |-> FALSE]

NodeNames == {"preprocessing", "tax_determination", "validation"}

\* The initial graph state built for a line.
InitialState(line, erp_type) ==
    [item_description |-> line.item_description,
     supplier_gstin |-> line.supplier_gstin,
     supplier_country |-> line.supplier_country,
     buyer_gstin |-> line.buyer_gstin,
     tax |-> line.tax,
     erp_type |-> erp_type,
     supplier_state_code |-> <<>>,
     buyer_state_code |-> <<>>,
     is_union_territory |-> FALSE,
     transaction_type |-> "",
     total_tax_rate |-> 0,
     is_rcm |-> FALSE,
     is_credit_eligible |-> TRUE,
     tax_code |-> "",
     tax_description |-> Plain(""),
     confidence |-> 0,
     total_prompt_tokens |-> 0,
     total_completion_tokens |-> 0,
     total_reasoning_tokens |-> 0,
     total_tokens |-> 0,
     messages |-> <<>>,
     errors |-> <<>>]

\* The result built from the final state of a line's run.
LineResult(i, line, final_state) ==
    [line_index |-> i,
     item_description |-> line.item_description,
     tax_code |-> final_state.tax_code,
     tax_description |-> final_state.tax_description,
     confidence |-> final_state.confidence,
     total_prompt_tokens |-> final_state.total_prompt_tokens,
     total_completion_tokens |-> final_state.total_completion_tokens,
     total_reasoning_tokens |-> final_state.total_reasoning_tokens,
     total_tokens |-> final_state.total_tokens,
     messages |-> final_state.messages,
     errors |-> final_state.errors]

\* ErrorResult keeping a default confidence and dropping the message.
ErrorResultWithoutMessage(i, line, e) ==
    [line_index |-> i,
     item_description |-> line.item_description,
     tax_code |-> "ERROR",
     tax_description |-> Ms("Processing error: {}", e),
     confidence |-> 0,
     total_prompt_tokens |-> 0,
     total_completion_tokens |-> 0,
     total_reasoning_tokens |-> 0,
     total_tokens |-> 0,
     messages |-> <<>>,
     errors |-> <<>>]

\* The result built by the except branch for exception text e.
ErrorResult(i, line, e) ==
    [line_index |-> i,
     item_description |-> line.item_description,
     tax_code |-> "ERROR",
     tax_description |-> Ms("Processing error: {}", e),
     confidence |-> 0,
     total_prompt_tokens |-> 0,
     total_completion_tokens |-> 0,
     total_reasoning_tokens |-> 0,
     total_tokens |-> 0,
     messages |-> <<>>,
     errors |-> <<Ms("{}", e)>>]

\* The increments of manual_review_count and error_count for a final state.
ManualReviewIncrement(final_state) ==
    IF final_state.tax_code = "MANUAL_REVIEW_REQUIRED" THEN 1 ELSE 0

ErrorIncrement(final_state) ==
    IF Len(final_state.errors) > 0 THEN 1 ELSE 0

\* round(total / n, 3) in thousandths, total being in ten-thousandths.  At
\* a decimal tie the binary float lies on either side of it, so both
\* neighbours are possible results.
Round3(total, n) ==
    LET q == total \div (10 * n)
        r == total % (10 * n)
    IN  IF 2 * r < 10 * n THEN {q}
        ELSE IF 2 * r > 10 * n THEN {q + 1}
        ELSE {q, q + 1}

\* AverageConfidence dividing by the number of lines that did not fail.
AverageOverScoredLines(total, n) ==
    IF n - error_count > 0 THEN Round3(total, n - error_count) ELSE {0}

\* The values average_confidence may take.
AverageConfidence(total, n) == IF n > 0 THEN Round3(total, n) ELSE {0}

Successful(n, manual, errors) == n - manual - errors

CurrentLine == request.lines[idx + 1]

Init ==
    /\ request \in Requests
    /\ pc = "loop"
    /\ idx = 0
    /\ st = Idle
    /\ results = <<>>
    /\ total_confidence = 0
    /\ manual_review_count = 0
    /\ error_count = 0
    /\ aggregate_prompt_tokens = 0
    /\ aggregate_completion_tokens = 0
    /\ aggregate_reasoning_tokens = 0
    /\ aggregate_total_tokens = 0
    /\ summary = NoSummary
    /\ prov = "none"
    /\ trace = <<>>
    /\ llm_reply = Idle
    /\ outcomes = <<>>
    /\ calls = NoCalls
    /\ tool = Idle
    /\ parked = Idle

\* StartLine building the line's state from the running token totals.
StartLineCarryingTokens ==
    /\ pc = "loop"
    /\ idx < Len(request.lines)
    /\ st' = [InitialState(CurrentLine, request.erp_type) EXCEPT
                 !.total_prompt_tokens = aggregate_prompt_tokens,
                 !.total_completion_tokens = aggregate_completion_tokens,
                 !.total_reasoning_tokens = aggregate_reasoning_tokens,
                 !.total_tokens = aggregate_total_tokens]
    /\ pc' = EntryPoint
    /\ prov' = "none"
    /\ trace' = <<>>
    /\ calls' = NoCalls
    /\ UNCHANGED <<request, idx, counters, summary, llm_reply, tool, parked>>

\* The loop takes the next line, builds its initial state and invokes the graph.
StartLine ==
    /\ pc = "loop"
    /\ idx < Len(request.lines)
    /\ st' = InitialState(CurrentLine, request.erp_type)
    /\ pc' = EntryPoint
    /\ prov' = "none"
    /\ trace' = <<>>
    /\ calls' = NoCalls
    /\ UNCHANGED <<request, idx, counters, summary, llm_reply, tool, parked>>

RunPreprocessing ==
    /\ pc = "preprocessing"
    /\ st' = MergeUpdates(st, preprocessing_node(st))
    /\ trace' = Append(trace, "preprocessing")
    /\ pc' = NextNode("preprocessing")
    /\ UNCHANGED <<request, idx, counters, summary, prov, llm_reply, calls,
                   tool, parked>>

\* The resolution node up to its lookup: on a hit it completes, on a miss
\* it suspends on the fallback call.
RunTaxDetermination ==
    /\ pc = "tax_determination"
    /\ trace' = Append(trace, "tax_determination")
    /\ LET lookup_result == DeterminationLookup(st)
           a == LookupArguments(st)
       IN  /\ calls' = [calls EXCEPT
                          !.lookup =
                              [args |-> a,
                               key |-> LookupKey(a.tax_rate, a.transaction_type,
                                                 a.charge_type, a.credit_type,
                                                 a.state_type),
                               out |-> lookup_result]]
           /\ IF lookup_result.found
              THEN /\ st' = MergeUpdates(st, DeterminationHit(st, lookup_result))
                   /\ prov' = "lookup"
                   /\ pc' = NextNode("tax_determination")
              ELSE /\ st' = st
                   /\ prov' = "none"
                   /\ pc' = "await_llm"
    /\ UNCHANGED <<request, idx, counters, summary, llm_reply, tool, parked>>

\* The fallback call returns.
LlmReturns ==
    /\ pc = "await_llm"
    /\ \E reply \in LlmReplies :
          /\ st' = MergeUpdates(st, DeterminationLlm(st, reply.response, reply.output))
          /\ llm_reply' = reply
    /\ prov' = "fallback"
    /\ calls' = [calls EXCEPT !.llm = calls.llm + 1]
    /\ pc' = NextNode("tax_determination")
    /\ UNCHANGED <<request, idx, counters, summary, trace, tool, parked>>

\* LlmRaises calling the fallback again.
LlmRaisesRetrying ==
    /\ pc = "await_llm"
    /\ \E e \in ExceptionTexts :
          st' = MergeUpdates(st, DeterminationLlmError(st, e))
    /\ prov' = "fallback-failed"
    /\ calls' = [calls EXCEPT !.llm = calls.llm + 1]
    /\ pc' = "await_llm"
    /\ UNCHANGED <<request, idx, counters, summary, trace, llm_reply, tool, parked>>

\* The fallback call raises.
LlmRaises ==
    /\ pc = "await_llm"
    /\ \E e \in ExceptionTexts :
          st' = MergeUpdates(st, DeterminationLlmError(st, e))
    /\ prov' = "fallback-failed"
    /\ calls' = [calls EXCEPT !.llm = calls.llm + 1]
    /\ pc' = NextNode("tax_determination")
    /\ UNCHANGED <<request, idx, counters, summary, trace, llm_reply, tool, parked>>

\* The miss branch raises outside the fallback call.
DeterminationRaises ==
    /\ pc = "await_llm"
    /\ \E e \in ExceptionTexts :
          st' = MergeUpdates(st, DeterminationError(st, e))
    /\ prov' = "resolution-error"
    /\ pc' = NextNode("tax_determination")
    /\ UNCHANGED <<request, idx, counters, summary, trace, llm_reply, calls,
                   tool, parked>>

RunValidation ==
    /\ pc = "validation"
    /\ st' = MergeUpdates(st, validation_node(st))
    /\ trace' = Append(trace, "validation")
    /\ pc' = NextNode("validation")
    /\ UNCHANGED <<request, idx, counters, summary, prov, llm_reply, calls,
                   tool, parked>>

\* FinishLine overwriting the running token totals with the line's counters.
FinishLineOverwritingTotals ==
    /\ pc = "END"
    /\ results' = Append(results, LineResult(idx, CurrentLine, st))
    /\ total_confidence' = total_confidence + st.confidence
    /\ aggregate_prompt_tokens' = st.total_prompt_tokens
    /\ aggregate_completion_tokens' = st.total_completion_tokens
    /\ aggregate_reasoning_tokens' = st.total_reasoning_tokens
    /\ aggregate_total_tokens' = st.total_tokens
    /\ manual_review_count' = manual_review_count + ManualReviewIncrement(st)
    /\ error_count' = error_count + ErrorIncrement(st)
    /\ outcomes' = Append(outcomes, prov)
    /\ idx' = idx + 1
    /\ pc' = "loop"
    /\ st' = Idle
    /\ prov' = "none"
    /\ trace' = <<>>
    /\ llm_reply' = Idle
    /\ calls' = NoCalls
    /\ UNCHANGED <<request, summary, tool, parked>>

\* The graph run has returned: the try branch builds the result and
\* updates the counters.
FinishLine ==
    /\ pc = "END"
    /\ results' = Append(results, LineResult(idx, CurrentLine, st))
    /\ total_confidence' = total_confidence + st.confidence
    /\ aggregate_prompt_tokens' = aggregate_prompt_tokens + st.total_prompt_tokens
    /\ aggregate_completion_tokens' =
           aggregate_completion_tokens + st.total_completion_tokens
    /\ aggregate_reasoning_tokens' =
           aggregate_reasoning_tokens + st.total_reasoning_tokens
    /\ aggregate_total_tokens' = aggregate_total_tokens + st.total_tokens
    /\ manual_review_count' = manual_review_count + ManualReviewIncrement(st)
    /\ error_count' = error_count + ErrorIncrement(st)
    /\ outcomes' = Append(outcomes, prov)
    /\ idx' = idx + 1
    /\ pc' = "loop"
    /\ st' = Idle
    /\ prov' = "none"
    /\ trace' = <<>>
    /\ llm_reply' = Idle
    /\ calls' = NoCalls
    /\ UNCHANGED <<request, summary, tool, parked>>

\* LineRaises without the except branch: the exception ends the request.
LineRaisesAborting ==
    /\ pc \in NodeNames \cup {"END"}
    /\ pc' = "done"
    /\ UNCHANGED <<request, idx, st, counters, summary, prov, trace, llm_reply,
                   calls, tool, parked>>

\* An exception escapes the graph run of the line: the except branch.
LineRaises ==
    /\ pc \in NodeNames \cup {"END"}
    /\ \E e \in ExceptionTexts :
          results' = Append(results, ErrorResult(idx, CurrentLine, e))
    /\ error_count' = error_count + 1
    /\ outcomes' = Append(outcomes, "pipeline-error")
    /\ idx' = idx + 1
    /\ pc' = "loop"
    /\ st' = Idle
    /\ prov' = "none"
    /\ trace' = <<>>
    /\ llm_reply' = Idle
    /\ calls' = NoCalls
    /\ UNCHANGED <<request, summary, tool, parked, total_confidence,
                   manual_review_count,
                   aggregate_prompt_tokens, aggregate_completion_tokens,
                   aggregate_reasoning_tokens, aggregate_total_tokens>>

\* The loop is over: the summary is built and the response returned.
BuildSummary ==
    /\ pc = "loop"
    /\ idx = Len(request.lines)
    /\ \E avg \in AverageConfidence(total_confidence, Len(request.lines)) :
          summary' =
              [built |-> TRUE,
               total_lines |-> Len(request.lines),
               successful |-> Successful(Len(request.lines),
                                         manual_review_count, error_count),
               manual_review |-> manual_review_count,
               errors |-> error_count,
               average_confidence |-> avg,
               total_prompt_tokens |-> aggregate_prompt_tokens,
               total_completion_tokens |-> aggregate_completion_tokens,
               total_reasoning_tokens |-> aggregate_reasoning_tokens,
               total_tokens |-> aggregate_total_tokens]
    /\ pc' = "done"
    /\ UNCHANGED <<request, idx, st, counters, prov, trace, llm_reply, calls,
                   tool, parked>>

Next ==
    \/ StartLine
    \/ RunPreprocessing
    \/ RunTaxDetermination
    \/ LlmReturns
    \/ LlmRaises
    \/ DeterminationRaises
    \/ RunValidation
    \/ FinishLine
    \/ LineRaises
    \/ BuildSummary

Spec == Init /\ [][Next]_vars

\* ------------------------------------------------ single-line requests

\* Supplier identifiers: valid in a state, valid in a union territory, the
\* mark of an unregistered supplier, of the wrong shape with a union
\* territory's code, and empty.
LineSuppliers ==
    { <<"2", "7", "A", "A", "B", "C", "U", "9", "6", "0", "3", "R", "1", "Z", "M">>,
      <<"0", "7", "A", "A", "A", "C", "D", "1", "2", "3", "4", "E", "1", "Z", "2">>,
      <<"U", "N", "R", "E", "G", "I", "S", "T", "E", "R", "E", "D">>,
      <<"0", "7", "A", "A", "A", "C", "D", "1", "2", "3", "4", "E", "0", "Z", "2">>,
      <<>> }

\* Buyer identifiers: valid in a state, valid in a union territory, and one
\* character short.
LineBuyers ==
    { <<"2", "7", "A", "A", "D", "C", "B", "2", "5", "0", "1", "D", "1", "Z", "F">>,
      <<"0", "7", "A", "A", "D", "C", "B", "2", "5", "0", "1", "D", "1", "Z", "F">>,
      <<"2", "7", "A", "A", "D", "C", "B", "2", "5", "0", "1", "D", "1", "Z">> }

LineDescriptions ==
    { <<"S", "o", "f", "t", "w", "a", "r", "e", " ", "l", "i", "c", "e", "n", "s", "e">>,
      <<"L", "e", "g", "a", "l", " ", "s", "e", "r", "v", "i", "c", "e", "s">> }

\* Tax entries: sums of 18, 0 and 5, no entry, and entries that do not parse.
LineTaxLists ==
    { <<<<"CGST", <<"9", "%">>>>, <<"SGST", <<"9", "%">>>>>>,
      <<<<"IGST", <<"1", "8", "%">>>>>>,
      <<<<"IGST", <<"0", "%">>>>>>,
      <<<<"CGST", <<"2", ".", "5", "%">>>>, <<"SGST", <<"2", ".", "5", "%">>>>>>,
      <<>>,
      <<<<"CGST", <<"9", "%">>>>, <<"SGST", <<"a", "b", "c">>>>>>,
      <<<<"IGST", <<"N", "/", "A">>>>>> }

LineCountries == {"IN", "US"}

\* The line items of the single-line requests.
WideLines ==
    { [item_description |-> d, supplier_gstin |-> g, supplier_country |-> c,
       buyer_gstin |-> b, tax |-> t] :
        d \in LineDescriptions, g \in LineSuppliers, c \in LineCountries,
        b \in LineBuyers, t \in LineTaxLists }

LineRequests ==
    { [lines |-> <<l>>, erp_type |-> e] : l \in WideLines, e \in ErpTypes }

\* A request of one line is about to be processed.
InitLine ==
    /\ request \in LineRequests
    /\ pc = "loop"
    /\ idx = 0
    /\ st = Idle
    /\ results = <<>>
    /\ total_confidence = 0
    /\ manual_review_count = 0
    /\ error_count = 0
    /\ aggregate_prompt_tokens = 0
    /\ aggregate_completion_tokens = 0
    /\ aggregate_reasoning_tokens = 0
    /\ aggregate_total_tokens = 0
    /\ summary = NoSummary
    /\ prov = "none"
    /\ trace = <<>>
    /\ llm_reply = Idle
    /\ outcomes = <<>>
    /\ calls = NoCalls
    /\ tool = Idle
    /\ parked = Idle

SpecLine == InitLine /\ [][Next]_vars

\* ------------------------------------------- two concurrent requests

\* The requests two callers submit to the one agent instance: batches of a
\* line the lookup resolves and of a line it misses.
PairRequests ==
    { [lines |-> ls, erp_type |-> "SAP_ECC"] :
        ls \in { <<LinePool[1]>>,
                 <<LinePool[3]>>,
                 <<LinePool[3], LinePool[1]>>,
                 <<LinePool[3], LinePool[3]>> } }

\* The locals of the coroutine that is running.
Context ==
    [request |-> request, pc |-> pc, idx |-> idx, st |-> st,
     results |-> results, total_confidence |-> total_confidence,
     manual_review_count |-> manual_review_count, error_count |-> error_count,
     aggregate_prompt_tokens |-> aggregate_prompt_tokens,
     aggregate_completion_tokens |-> aggregate_completion_tokens,
     aggregate_reasoning_tokens |-> aggregate_reasoning_tokens,
     aggregate_total_tokens |-> aggregate_total_tokens,
     summary |-> summary, prov |-> prov, trace |-> trace,
     llm_reply |-> llm_reply, outcomes |-> outcomes, calls |-> calls]

\* The locals of a coroutine that has not started.
InitialContext(r) ==
    [request |-> r, pc |-> "loop", idx |-> 0, st |-> Idle,
     results |-> <<>>, total_confidence |-> 0,
     manual_review_count |-> 0, error_count |-> 0,
     aggregate_prompt_tokens |-> 0, aggregate_completion_tokens |-> 0,
     aggregate_reasoning_tokens |-> 0, aggregate_total_tokens |-> 0,
     summary |-> NoSummary, prov |-> "none", trace |-> <<>>,
     llm_reply |-> Idle, outcomes |-> <<>>, calls |-> NoCalls]

\* The positions at which a coroutine yields to the event loop: awaiting
\* the fallback call, between the nodes of the graph run, and at its end.
SuspensionPoints == NodeNames \cup {"await_llm", "END", "done"}

\* Two requests are about to be processed by the same agent instance.
InitPair ==
    /\ request \in PairRequests
    /\ pc = "loop"
    /\ idx = 0
    /\ st = Idle
    /\ results = <<>>
    /\ total_confidence = 0
    /\ manual_review_count = 0
    /\ error_count = 0
    /\ aggregate_prompt_tokens = 0
    /\ aggregate_completion_tokens = 0
    /\ aggregate_reasoning_tokens = 0
    /\ aggregate_total_tokens = 0
    /\ summary = NoSummary
    /\ prov = "none"
    /\ trace = <<>>
    /\ llm_reply = Idle
    /\ outcomes = <<>>
    /\ calls = NoCalls
    /\ tool = Idle
    /\ parked \in {InitialContext(r) : r \in PairRequests}

\* Switch with the token totals kept on the shared agent instance.
SwitchSharingTotals ==
    /\ parked # Idle
    /\ pc \in SuspensionPoints
    /\ parked.pc # "done"
    /\ parked' = Context
    /\ request' = parked.request
    /\ pc' = parked.pc
    /\ idx' = parked.idx
    /\ st' = parked.st
    /\ results' = parked.results
    /\ total_confidence' = parked.total_confidence
    /\ manual_review_count' = parked.manual_review_count
    /\ error_count' = parked.error_count
    /\ summary' = parked.summary
    /\ prov' = parked.prov
    /\ trace' = parked.trace
    /\ llm_reply' = parked.llm_reply
    /\ outcomes' = parked.outcomes
    /\ calls' = parked.calls
    /\ UNCHANGED <<tool, aggregate_prompt_tokens, aggregate_completion_tokens,
                   aggregate_reasoning_tokens, aggregate_total_tokens>>

\* The event loop suspends the running coroutine and resumes the other:
\* each coroutine keeps its own locals.
Switch ==
    /\ parked # Idle
    /\ pc \in SuspensionPoints
    /\ parked.pc # "done"
    /\ parked' = Context
    /\ request' = parked.request
    /\ pc' = parked.pc
    /\ idx' = parked.idx
    /\ st' = parked.st
    /\ results' = parked.results
    /\ total_confidence' = parked.total_confidence
    /\ manual_review_count' = parked.manual_review_count
    /\ error_count' = parked.error_count
    /\ aggregate_prompt_tokens' = parked.aggregate_prompt_tokens
    /\ aggregate_completion_tokens' = parked.aggregate_completion_tokens
    /\ aggregate_reasoning_tokens' = parked.aggregate_reasoning_tokens
    /\ aggregate_total_tokens' = parked.aggregate_total_tokens
    /\ summary' = parked.summary
    /\ prov' = parked.prov
    /\ trace' = parked.trace
    /\ llm_reply' = parked.llm_reply
    /\ outcomes' = parked.outcomes
    /\ calls' = parked.calls
    /\ UNCHANGED tool

NextPair ==
    \/ Next
    \/ Switch

SpecPair == InitPair /\ [][NextPair]_vars

\* ------------------------------------------------- tool specifications

\* The rates (in hundredths) the tools are called with: the supported rates,
\* 7% and 10%.
ToolRates == {0, 25, 300, 500, 700, 1000, 1200, 1800, 2800}

LookupCalls ==
    { [op |-> "lookup_tax_code", done |-> FALSE, out |-> Idle, key |-> Idle,
       args |-> [tax_rate |-> r, transaction_type |-> t, charge_type |-> c,
                 credit_type |-> k, state_type |-> s, erp_type |-> e]] :
        r \in ToolRates, t \in {"INTRA", "INTER", "UNKNOWN"},
        c \in {"REGULAR", "RCM"}, k \in {"CREDIT", "NON_CREDIT"},
        s \in {"STATE", "UT"}, e \in ErpTypes }

\* The characters the identifiers are varied with.
GstinChars == {"0", "1", "9", "A", "Z", "a", "-"}

\* The 15-character identifiers of the line items.
GstinBases ==
    { g \in {LinePool[i].supplier_gstin : i \in 1..Len(LinePool)}
            \cup {LinePool[i].buyer_gstin : i \in 1..Len(LinePool)} :
        Len(g) = 15 }

\* s with its i-th character replaced by c.
Substitute(s, i, c) == [s EXCEPT ![i] = c]

\* The identifiers extract_state_code_from_gstin is called with: None, every
\* prefix of a line item's identifier, the identifier with a character
\* appended, and the identifier with any character and the second or the
\* thirteenth character replaced.
GstinInputs ==
    {NoneText}
    \cup {SubSeq(b, 1, n) : b \in GstinBases, n \in 0..15}
    \cup {b \o <<c>> : b \in GstinBases, c \in GstinChars}
    \cup {Substitute(Substitute(b, i, c), j, d) :
             b \in GstinBases, i \in 1..15, j \in {2, 13},
             c \in GstinChars, d \in GstinChars}

ExtractCalls ==
    { [op |-> "extract_state_code_from_gstin", done |-> FALSE, out |-> Idle,
       args |-> [gstin |-> g, erp_type |-> e]] :
        g \in GstinInputs, e \in ErpTypes }

\* Identifiers that are absent, empty, a mark of an unregistered supplier, of
\* the wrong shape or of the wrong length.
PairGstinExtras ==
    { NoneText,
      <<>>,
      <<"U", "N", "R", "E", "G", "I", "S", "T", "E", "R", "E", "D">>,
      <<"2", "7", "A", "A", "B", "C", "U", "9", "6", "0", "3", "R", "0", "Z", "M">>,
      <<"2", "7", "a", "a", "b", "c", "u", "9", "6", "0", "3", "r", "1", "z", "m">>,
      <<"2", "7", "A", "A", "B", "C", "U", "9", "6", "0", "3", "R", "1", "Z">>,
      <<"2", "9", "A", "A", "B", "C", "X", "1", "2", "3", "4", "F", "1", "Z", "-">> }

\* The identifiers determine_transaction_type is called with.
PairGstins == GstinBases \cup PairGstinExtras

DetermineCalls ==
    { [op |-> "determine_transaction_type", done |-> FALSE, out |-> Idle,
       swapped |-> Idle,
       args |-> [supplier_gstin |-> a, buyer_gstin |-> b, erp_type |-> e]] :
        a \in PairGstins, b \in PairGstins, e \in ErpTypes }

\* The largest number of entries of a tax list.
MaxTaxEntries == 3

\* The percentage strings of the entries: some parse, some do not.
RateStrings ==
    { <<"9", "%">>,
      <<"1", "8", "%">>,
      <<"2", ".", "5", "%">>,
      <<"0", ".", "2", "5", "%">>,
      <<" ", "5", "%", " ">>,
      <<"a", "b", "c">>,
      <<>>,
      <<"%">>,
      <<"9">>,
      <<"1", ".", "2", ".", "3">>,
      <<"1", "4", "%">> }

TaxLists ==
    UNION { [1..n -> {<<"CGST", r>> : r \in RateStrings}] : n \in 0..MaxTaxEntries }

CalculateCalls ==
    { [op |-> "calculate_total_tax_rate", done |-> FALSE, out |-> Idle,
       args |-> [tax_list |-> t]] : t \in TaxLists }

\* The supplier identifiers check_rcm_applicability is called with.
RcmGstins ==
    { NoneText,
      <<>>,
      <<"U", "R", "P">>,
      <<"u", "r", "p">>,
      <<"U", "n", "r", "e", "g", "i", "s", "t", "e", "r", "e", "d">>,
      <<"U", "N", "R", "E", "G", "I", "S", "T", "E", "R", "E", "D">>,
      <<"N", "A">>,
      <<"n", "a">>,
      <<"N", "A", "X">>,
      <<"2", "7", "A", "A", "B", "C", "U", "9", "6", "0", "3", "R", "1", "Z", "M">> }

RcmCountries == {"IN", "US", ""}

\* The item descriptions check_rcm_applicability is called with.
RcmDescriptions ==
    { <<"L", "e", "g", "a", "l", " ", "s", "e", "r", "v", "i", "c", "e", "s">>,
      <<"I", "L", "L", "E", "G", "A", "L", " ", "d", "u", "m", "p", "i", "n", "g", " ", "f", "e", "e">>,
      <<"S", "o", "f", "t", "w", "a", "r", "e", " ", "l", "i", "c", "e", "n", "s", "e">>,
      <<"G", "T", "A", " ", "f", "r", "e", "i", "g", "h", "t">>,
      <<"R", "e", "v", "e", "r", "s", "e", " ", "C", "h", "a", "r", "g", "e", " ", "i", "n", "v", "o", "i", "c", "e">>,
      <<"r", "e", "v", "e", "r", "s", "e", "-", "c", "h", "a", "r", "g", "e">>,
      <<>>,
      <<"A", "d", "v", "o", "c", "a", "t", "e">>,
      <<"A", "R", "B", "I", "T", "R", "A", "T", "I", "O", "N", " ", "f", "e", "e">>,
      <<"r", "c", "m">>,
      <<"C", "o", "n", "s", "u", "l", "t", "i", "n", "g">> }

RcmCalls ==
    { [op |-> "check_rcm_applicability", done |-> FALSE, out |-> Idle,
       args |-> [supplier_gstin |-> g, supplier_country |-> c,
                 item_description |-> d]] :
        g \in RcmGstins, c \in RcmCountries, d \in RcmDescriptions }

ToolCalls ==
    LookupCalls \cup ExtractCalls \cup DetermineCalls \cup CalculateCalls
        \cup RcmCalls

\* A tool is about to be called on its own, outside any batch.
InitTools ==
    /\ tool \in ToolCalls
    /\ request = [lines |-> <<>>, erp_type |-> "SAP_ECC"]
    /\ pc = "tool"
    /\ idx = 0
    /\ st = Idle
    /\ results = <<>>
    /\ total_confidence = 0
    /\ manual_review_count = 0
    /\ error_count = 0
    /\ aggregate_prompt_tokens = 0
    /\ aggregate_completion_tokens = 0
    /\ aggregate_reasoning_tokens = 0
    /\ aggregate_total_tokens = 0
    /\ summary = NoSummary
    /\ prov = "none"
    /\ trace = <<>>
    /\ llm_reply = Idle
    /\ outcomes = <<>>
    /\ calls = NoCalls
    /\ parked = Idle

CallLookup ==
    /\ pc = "tool"
    /\ tool.op = "lookup_tax_code"
    /\ ~tool.done
    /\ tool' = [tool EXCEPT
                  !.done = TRUE,
                  !.key = LookupKey(tool.args.tax_rate,
                                    tool.args.transaction_type,
                                    tool.args.charge_type,
                                    tool.args.credit_type,
                                    tool.args.state_type),
                  !.out = lookup_tax_code(tool.args.tax_rate,
                                          tool.args.transaction_type,
                                          tool.args.charge_type,
                                          tool.args.credit_type,
                                          tool.args.state_type,
                                          tool.args.erp_type)]
    /\ UNCHANGED <<request, pc, idx, st, counters, summary, prov, trace, llm_reply,
                   calls, parked>>

CallExtract ==
    /\ pc = "tool"
    /\ tool.op = "extract_state_code_from_gstin"
    /\ ~tool.done
    /\ tool' = [tool EXCEPT
                  !.done = TRUE,
                  !.out = extract_state_code_from_gstin(tool.args.gstin,
                                                        tool.args.erp_type)]
    /\ UNCHANGED <<request, pc, idx, st, counters, summary, prov, trace, llm_reply,
                   calls, parked>>

CallDetermine ==
    /\ pc = "tool"
    /\ tool.op = "determine_transaction_type"
    /\ ~tool.done
    /\ tool' = [tool EXCEPT
                  !.done = TRUE,
                  !.out = determine_transaction_type(tool.args.supplier_gstin,
                                                     tool.args.buyer_gstin,
                                                     tool.args.erp_type)]
    /\ UNCHANGED <<request, pc, idx, st, counters, summary, prov, trace, llm_reply,
                   calls, parked>>

\* A second call, with the two identifiers exchanged.
CallDetermineSwapped ==
    /\ pc = "tool"
    /\ tool.op = "determine_transaction_type"
    /\ tool.done
    /\ tool.swapped = Idle
    /\ tool' = [tool EXCEPT
                  !.swapped = determine_transaction_type(tool.args.buyer_gstin,
                                                         tool.args.supplier_gstin,
                                                         tool.args.erp_type)]
    /\ UNCHANGED <<request, pc, idx, st, counters, summary, prov, trace, llm_reply,
                   calls, parked>>

CallCalculate ==
    /\ pc = "tool"
    /\ tool.op = "calculate_total_tax_rate"
    /\ ~tool.done
    /\ tool' = [tool EXCEPT
                  !.done = TRUE,
                  !.out = [total |-> calculate_total_tax_rate(tool.args.tax_list)]]
    /\ UNCHANGED <<request, pc, idx, st, counters, summary, prov, trace, llm_reply,
                   calls, parked>>

CallRcm ==
    /\ pc = "tool"
    /\ tool.op = "check_rcm_applicability"
    /\ ~tool.done
    /\ tool' = [tool EXCEPT
                  !.done = TRUE,
                  !.out = [is_rcm |->
                             check_rcm_applicability(tool.args.supplier_gstin,
                                                     tool.args.supplier_country,
                                                     tool.args.item_description)]]
    /\ UNCHANGED <<request, pc, idx, st, counters, summary, prov, trace, llm_reply,
                   calls, parked>>

NextTools ==
    \/ CallLookup
    \/ CallExtract
    \/ CallDetermine
    \/ CallDetermineSwapped
    \/ CallCalculate
    \/ CallRcm

SpecTools == InitTools /\ [][NextTools]_vars

\* -------------------------------------------------------------- claims

Range(s) == {s[i] : i \in 1..Len(s)}

FullTrace == <<"preprocessing", "tax_determination", "validation">>

Sentinels == {"MANUAL_REVIEW_REQUIRED", "ERROR", ""}

RECURSIVE SumConfidence(_)
SumConfidence(rs) ==
    IF Len(rs) = 0 THEN 0 ELSE Head(rs).confidence + SumConfidence(Tail(rs))

\* C1: in the summary every line is counted in exactly one of successful,
\* manual_review and errors, a line with the manual-review code being
\* counted in manual_review only; so the three counts add up to
\* total_lines and each lies between 0 and total_lines.
C1_EachLineCountedOnce ==
    pc = "done" =>
        LET n == Len(request.lines)
            manual == {k \in 1..Len(results) :
                          results[k].tax_code = "MANUAL_REVIEW_REQUIRED"}
            failed == {k \in 1..Len(results) :
                          /\ results[k].tax_code # "MANUAL_REVIEW_REQUIRED"
                          /\ Len(results[k].errors) > 0}
        IN  /\ summary.manual_review = Cardinality(manual)
            /\ summary.errors = Cardinality(failed)
            /\ summary.successful = n - Cardinality(manual) - Cardinality(failed)
            /\ summary.successful + summary.manual_review + summary.errors
                   = summary.total_lines
            /\ summary.successful \in 0..n
            /\ summary.manual_review \in 0..n
            /\ summary.errors \in 0..n

\* C2: no line aborts the batch: the results so far are those of the lines
\* so far, result k carrying line_index k and the description of input line
\* k; after any line the loop goes on with the next line or the summary,
\* and at the end there are as many results as lines and total_lines is
\* that number.
C2_BatchNeverAborted ==
    /\ Len(results) = idx
    /\ idx <= Len(request.lines)
    /\ \A k \in 1..Len(results) :
          /\ results[k].line_index = k - 1
          /\ results[k].item_description = request.lines[k].item_description
    /\ pc = "done" =>
          /\ Len(results) = Len(request.lines)
          /\ summary.built
          /\ summary.total_lines = Len(request.lines)
    /\ pc = "loop" => ENABLED (StartLine \/ BuildSummary)

\* A line failed with an exception and the next line was resolved by lookup.
C2_Witness ==
    /\ pc = "done"
    /\ Len(results) = 2
    /\ outcomes = <<"pipeline-error", "lookup">>
    /\ results[2].tax_code = "3Z"

\* C3: the step that handles an exception escaping a line's run appends a
\* result with code ERROR, confidence 0, zero token counters, no messages
\* and exactly the exception's message as errors; it adds one to the error
\* count and leaves the manual-review count, the token totals and the
\* confidence sum as they were.
C3_PipelineErrorLine ==
    [][(/\ Len(outcomes') = Len(outcomes) + 1
        /\ outcomes'[Len(outcomes')] = "pipeline-error")
       => LET r == results'[Len(results')]
          IN  /\ Len(results') = Len(results) + 1
              /\ SubSeq(results', 1, Len(results)) = results
              /\ r.tax_code = "ERROR"
              /\ r.confidence = 0
              /\ r.total_prompt_tokens = 0
              /\ r.total_completion_tokens = 0
              /\ r.total_reasoning_tokens = 0
              /\ r.total_tokens = 0
              /\ r.messages = <<>>
              /\ \E e \in ExceptionTexts :
                    /\ r.errors = <<Plain(e)>>
                    /\ r.tax_description = Ms("Processing error: {}", e)
              /\ error_count' = error_count + 1
              /\ manual_review_count' = manual_review_count
              /\ total_confidence' = total_confidence
              /\ aggregate_prompt_tokens' = aggregate_prompt_tokens
              /\ aggregate_completion_tokens' = aggregate_completion_tokens
              /\ aggregate_reasoning_tokens' = aggregate_reasoning_tokens
              /\ aggregate_total_tokens' = aggregate_total_tokens]_vars

\* A line failed with an exception after an earlier line had used tokens.
C3_Witness ==
    /\ Len(outcomes) = 2
    /\ outcomes[2] = "pipeline-error"
    /\ aggregate_total_tokens > 0
    /\ total_confidence > 0

\* C4: when the fallback call raises, the resolution node does not raise:
\* the line goes on to validation with code MANUAL_REVIEW_REQUIRED (not
\* ERROR), confidence 0, an error recording the failure and zero token
\* counters, and the validation node runs.
C4_FallbackFailure ==
    prov = "fallback-failed" =>
        /\ pc \in {"validation", "END"}
        /\ st.tax_code = "MANUAL_REVIEW_REQUIRED"
        /\ st.tax_code # "ERROR"
        /\ st.confidence = 0
        /\ \E e \in ExceptionTexts : Ms("LLM error: {}", e) \in Range(st.errors)
        /\ st.total_prompt_tokens = 0
        /\ st.total_completion_tokens = 0
        /\ st.total_reasoning_tokens = 0
        /\ st.total_tokens = 0
        /\ pc = "END" => trace = FullTrace

\* The validation node has run after a failed fallback call.
C4_Witness ==
    /\ prov = "fallback-failed"
    /\ pc = "END"
    /\ M0("Tax code not automatically determined") \in Range(st.errors)

\* C5: for every line the nodes run in the order preprocessing,
\* tax_determination, validation, each once: a node is entered only when
\* exactly its predecessors have run, validation only once the resolution
\* (a pending fallback call included) is over, and the run ends after
\* validation.
C5_StageOrder ==
    /\ pc = "preprocessing" => trace = <<>>
    /\ pc = "tax_determination" => trace = SubSeq(FullTrace, 1, 1)
    /\ pc = "await_llm" => trace = SubSeq(FullTrace, 1, 2) /\ prov = "none"
    /\ pc = "validation" => trace = SubSeq(FullTrace, 1, 2) /\ prov # "none"
    /\ pc = "END" => trace = FullTrace /\ prov # "none"
    /\ pc \in {"loop", "done"} => trace = <<>>
    /\ pc \in NodeNames \cup {"await_llm", "END", "loop", "done"}

\* A run that suspended on the fallback call has ended.
C5_Witness ==
    /\ pc = "END"
    /\ prov = "fallback"
    /\ trace = FullTrace

\* C6: lookup_tax_code finds a code exactly when the key (normalized rate,
\* category, charge, credit, region) is a key of the selected system's
\* master; a hit has the mapped code, confidence 0.95 and a non-empty
\* description (the table's entry, or the synthesized text when there is
\* none); a miss (rate 7 for instance) has confidence 0.
C6_LookupHitIffKeyInMaster ==
    (pc = "tool" /\ tool.op = "lookup_tax_code" /\ tool.done) =>
        LET a == tool.args
            out == tool.out
            key == <<NormalizeRate(a.tax_rate), a.transaction_type,
                     a.charge_type, a.credit_type, a.state_type>>
            master == CASE a.erp_type = "ORACLE" -> ORACLE_TAX_CODE_MASTER
                        [] a.erp_type = "MS_365" -> MS360_TAX_CODE_MASTER
                        [] OTHER -> SAP_TAX_CODE_MASTER
            descs == CASE a.erp_type = "ORACLE" -> ORACLE_TAX_CODE_DESCRIPTIONS
                       [] a.erp_type = "MS_365" -> MS360_TAX_CODE_DESCRIPTIONS
                       [] OTHER -> SAP_TAX_CODE_DESCRIPTIONS
        IN  /\ out.found <=> (\E p \in master : p[1] = key)
            /\ out.found =>
                  /\ <<key, out.tax_code>> \in master
                  /\ out.confidence = 9500
                  /\ out.tax_description # Plain("")
                  /\ \A d \in descs :
                        d[1] = out.tax_code => out.tax_description = Plain(d[2])
                  /\ (\A d \in descs : d[1] # out.tax_code) =>
                        out.tax_description =
                            Msg("Tax Code {} - {}%", <<out.tax_code>>, key[1], 0)
            /\ ~out.found => out.confidence = 0
            /\ a.tax_rate = 700 => ~out.found

\* A hit on a code that has no entry in the description table.
C6_Witness ==
    /\ pc = "tool"
    /\ tool.op = "lookup_tax_code"
    /\ tool.done
    /\ tool.out.found
    /\ tool.out.tax_code = "R3_UT"
    /\ tool.out.tax_description.k = "Tax Code {} - {}%"

\* C7: after a miss and a fallback call that returned, the line's code and
\* confidence are the fallback's, its description is the fallback's
\* reasoning, and its prompt, completion and reasoning counters are the
\* counts of the provider metadata, 0 for whatever is absent.
C7_FallbackAdopted ==
    prov = "fallback" =>
        LET response == llm_reply.response
            output == llm_reply.output
            usage == IF "token_usage" \in DOMAIN output
                     THEN output.token_usage ELSE [absent |-> TRUE]
            details == IF "completion_tokens_details" \in DOMAIN usage
                       THEN usage.completion_tokens_details ELSE [absent |-> TRUE]
            prompt == IF "prompt_tokens" \in DOMAIN usage
                      THEN usage.prompt_tokens ELSE 0
            completion == IF "completion_tokens" \in DOMAIN usage
                          THEN usage.completion_tokens ELSE 0
            reasoning == IF "reasoning_tokens" \in DOMAIN details
                         THEN details.reasoning_tokens ELSE 0
        IN  /\ pc \in {"validation", "END"}
            /\ st.tax_code = response.tax_code
            /\ st.confidence = response.confidence
            /\ st.tax_description = Plain(response.reasoning)
            /\ st.total_prompt_tokens = prompt
            /\ st.total_completion_tokens = completion
            /\ st.total_reasoning_tokens = reasoning

\* A fallback result whose metadata reports reasoning tokens.
C7_Witness ==
    /\ prov = "fallback"
    /\ pc = "END"
    /\ st.total_reasoning_tokens = 7
    /\ st.total_prompt_tokens = 120

\* C8: every line result whose code is MANUAL_REVIEW_REQUIRED, ERROR or
\* empty has a non-empty error list.
C8_SentinelHasErrors ==
    \A k \in 1..Len(results) :
        results[k].tax_code \in Sentinels => Len(results[k].errors) > 0

\* A fallback returned the manual-review code itself, with a confidence
\* above the threshold, for a line with valid identifiers.
C8_Witness ==
    \E k \in 1..Len(results) :
        /\ outcomes[k] = "fallback"
        /\ results[k].tax_code = "MANUAL_REVIEW_REQUIRED"
        /\ results[k].confidence = 7000
        /\ Len(results[k].errors) = 1

\* C9: the validation node changes nothing but the message list and the
\* error list: every other key of the state is the same after it.
C9_ValidationFrame ==
    [][(pc = "validation" /\ pc' = "END") =>
          /\ DOMAIN st' = DOMAIN st
          /\ \A f \in DOMAIN st \ {"messages", "errors"} : st'[f] = st[f]]_vars

\* Validation has run on a low-confidence result with a usable code.
C9_Witness ==
    /\ pc = "END"
    /\ st.confidence = 2500
    /\ st.tax_code = "3Z"
    /\ M0("Confidence below threshold (0.6)") \in Range(st.errors)

\* C10: average_confidence is the sum of the confidences of all line
\* results divided by the number of input lines, to the nearest
\* thousandth: zero-confidence lines count in the denominator, and an
\* empty batch gives 0.
C10_AverageConfidence ==
    pc = "done" =>
        LET n == Len(request.lines)
            s == SumConfidence(results)
            a == summary.average_confidence
        IN  /\ Len(results) = n
            /\ n = 0 => a = 0
            /\ n > 0 => /\ 2 * (10 * n * a - s) <= 10 * n
                        /\ 2 * (s - 10 * n * a) <= 10 * n

\* A batch of a failed line and a scored line.
C10_Witness ==
    /\ pc = "done"
    /\ Len(results) = 2
    /\ outcomes = <<"fallback-failed", "lookup">>
    /\ results[1].confidence = 0
    /\ summary.average_confidence = 475

\* The sum of a counter over a list of line results.
RECURSIVE SumField(_, _)
SumField(rs, f) ==
    IF Len(rs) = 0 THEN 0 ELSE Head(rs)[f] + SumField(Tail(rs), f)

\* C11: in every line result, and in the state of a line once its
\* resolution is over, total_tokens is the sum of the prompt, completion
\* and reasoning counters, whatever the outcome of the line.
C11_TotalIsSumOfCounters ==
    /\ \A k \in 1..Len(results) :
          results[k].total_tokens =
              results[k].total_prompt_tokens + results[k].total_completion_tokens
                  + results[k].total_reasoning_tokens
    /\ pc \in NodeNames \cup {"await_llm", "END"} =>
          st.total_tokens =
              st.total_prompt_tokens + st.total_completion_tokens
                  + st.total_reasoning_tokens

\* A fallback result with all three counters positive, after a line that
\* failed with an exception.
C11_Witness ==
    /\ Len(results) = 2
    /\ outcomes = <<"pipeline-error", "fallback">>
    /\ results[2].total_prompt_tokens = 120
    /\ results[2].total_completion_tokens = 30
    /\ results[2].total_reasoning_tokens = 7
    /\ results[2].total_tokens = 157

\* C12: after any prefix of the batch each of the four running token totals
\* is the sum of its counter over the line results so far; the summary's
\* token totals are these sums over all results, and its total_tokens is
\* the sum of its other three token totals.
C12_RunningTotals ==
    /\ aggregate_prompt_tokens = SumField(results, "total_prompt_tokens")
    /\ aggregate_completion_tokens = SumField(results, "total_completion_tokens")
    /\ aggregate_reasoning_tokens = SumField(results, "total_reasoning_tokens")
    /\ aggregate_total_tokens = SumField(results, "total_tokens")
    /\ pc = "done" =>
          /\ Len(results) = Len(request.lines)
          /\ summary.total_prompt_tokens = SumField(results, "total_prompt_tokens")
          /\ summary.total_completion_tokens =
                 SumField(results, "total_completion_tokens")
          /\ summary.total_reasoning_tokens =
                 SumField(results, "total_reasoning_tokens")
          /\ summary.total_tokens = SumField(results, "total_tokens")
          /\ summary.total_tokens =
                 summary.total_prompt_tokens + summary.total_completion_tokens
                     + summary.total_reasoning_tokens

\* The summary of a batch of two lines that both used tokens.
C12_Witness ==
    /\ pc = "done"
    /\ Len(results) = 2
    /\ results[1].total_tokens = 157
    /\ results[2].total_tokens = 150
    /\ summary.total_tokens = 307
    /\ summary.total_reasoning_tokens = 7

\* A call of extract_state_code_from_gstin has returned.
ExtractDone ==
    /\ pc = "tool"
    /\ tool.op = "extract_state_code_from_gstin"
    /\ tool.done

\* The shape of an identifier as the claims word it: 2 digits, 5 letters,
\* 4 digits, 1 letter, 1 digit or letter, the letter Z, 1 digit or letter.
ClaimedShape(g) ==
    /\ Len(g) = 15
    /\ \A i \in {1, 2, 8, 9, 10, 11} : g[i] \in Digits
    /\ \A i \in {3, 4, 5, 6, 7, 12} : g[i] \in Upper
    /\ \A i \in {13, 15} : g[i] \in Digits \cup Upper
    /\ g[14] = "Z"

\* C13, as claimed: every identifier of the shape 2 digits, 5 letters, 4
\* digits, 1 letter, 1 digit or letter, Z, 1 digit or letter is found
\* valid, with no error and its first two characters as state_code, for
\* every target system.
C13_WellShapedIsValid ==
    (ExtractDone /\ ClaimedShape(tool.args.gstin)) =>
        /\ tool.out.is_valid
        /\ tool.out.error = "None"
        /\ tool.out.state_code = SubSeq(tool.args.gstin, 1, 2)

\* C13, amended: every identifier of that shape whose thirteenth character
\* is not the digit 0 is found valid, with no error and its first two
\* characters as state_code, for every target system.
C13_WellShapedNonZeroEntityIsValid ==
    (ExtractDone /\ ClaimedShape(tool.args.gstin) /\ tool.args.gstin[13] # "0") =>
        /\ tool.out.is_valid
        /\ tool.out.error = "None"
        /\ tool.out.state_code = SubSeq(tool.args.gstin, 1, 2)

\* A valid identifier with a letter as thirteenth character and a region
\* code that differs from those of the line items.
C13_Witness ==
    /\ ExtractDone
    /\ tool.args.erp_type = "ORACLE"
    /\ Len(tool.args.gstin) = 15
    /\ tool.args.gstin[13] = "Z"
    /\ tool.args.gstin[2] = "1"
    /\ tool.out.is_valid
    /\ tool.out.state_code = <<"2", "1">>

\* C14: an identifier that is absent, empty, not 15 characters long, or 15
\* characters long but not of the shape (a thirteenth character 0 counted
\* as a violation of the shape) is found invalid, with is_union_territory
\* false, an empty state_code and an error; the error for a wrong length is
\* not the error for a wrong shape.
C14_MalformedIsInvalid ==
    ExtractDone =>
        LET g == tool.args.gstin
            out == tool.out
            wrong_length == g = NoneText \/ Len(g) # 15
            wrong_shape == ~wrong_length /\ (~ClaimedShape(g) \/ g[13] = "0")
        IN  /\ (wrong_length \/ wrong_shape) =>
                  /\ ~out.is_valid
                  /\ ~out.is_union_territory
                  /\ out.state_code = <<>>
                  /\ out.error # "None"
            /\ wrong_length => out.error = "GSTIN must be 15 characters"
            /\ wrong_shape => out.error = "Invalid GSTIN format"
            /\ wrong_shape => out.error # "GSTIN must be 15 characters"

\* A 15-character identifier with a lower-case letter, whose first two
\* characters are a union territory's code, was rejected for its shape.
C14_Witness ==
    /\ ExtractDone
    /\ Len(tool.args.gstin) = 15
    /\ SubSeq(tool.args.gstin, 1, 2) = <<"0", "7">>
    /\ tool.args.gstin[5] = "a"
    /\ tool.out.error = "Invalid GSTIN format"
    /\ ~tool.out.is_union_territory

\* A call of determine_transaction_type has returned.
DetermineDone ==
    /\ pc = "tool"
    /\ tool.op = "determine_transaction_type"
    /\ tool.done

\* C15: determine_transaction_type returns UNKNOWN, with is_same_state
\* false, exactly when one of the two identifiers is invalid (the region
\* code of an invalid party being empty and that of a valid party its first
\* two characters); otherwise INTRA when the two region codes are equal and
\* INTER when they differ, is_same_state being true exactly for INTRA.
C15_TransactionCategory ==
    DetermineDone =>
        LET a == tool.args.supplier_gstin
            b == tool.args.buyer_gstin
            e == tool.args.erp_type
            a_valid == extract_state_code_from_gstin(a, e).is_valid
            b_valid == extract_state_code_from_gstin(b, e).is_valid
            out == tool.out
        IN  /\ out.transaction_type = "UNKNOWN" <=> (~a_valid \/ ~b_valid)
            /\ out.transaction_type = "UNKNOWN" => ~out.is_same_state
            /\ out.supplier_state = IF a_valid THEN SubSeq(a, 1, 2) ELSE <<>>
            /\ out.buyer_state = IF b_valid THEN SubSeq(b, 1, 2) ELSE <<>>
            /\ (a_valid /\ b_valid) =>
                  out.transaction_type =
                      IF SubSeq(a, 1, 2) = SubSeq(b, 1, 2) THEN "INTRA" ELSE "INTER"
            /\ out.is_same_state <=> out.transaction_type = "INTRA"
            /\ out.transaction_type \in {"UNKNOWN", "INTRA", "INTER"}

\* A valid supplier and an invalid buyer: UNKNOWN with the supplier's region
\* code reported.
C15_Witness ==
    /\ DetermineDone
    /\ tool.out.transaction_type = "UNKNOWN"
    /\ tool.out.supplier_state = <<"2", "9">>
    /\ tool.out.buyer_state = <<>>
    /\ Len(tool.args.buyer_gstin) = 15

\* C16: determine_transaction_type(a, b) and determine_transaction_type(b, a)
\* return the same category and the same is_same_state, and the
\* supplier_state of each is the buyer_state of the other.
C16_SwapSymmetry ==
    (DetermineDone /\ tool.swapped # Idle) =>
        /\ tool.swapped.transaction_type = tool.out.transaction_type
        /\ tool.swapped.is_same_state = tool.out.is_same_state
        /\ tool.swapped.supplier_state = tool.out.buyer_state
        /\ tool.swapped.buyer_state = tool.out.supplier_state

\* Both calls were made for a valid and an invalid identifier.
C16_Witness ==
    /\ DetermineDone
    /\ tool.swapped # Idle
    /\ tool.out.transaction_type = "UNKNOWN"
    /\ tool.out.supplier_state = <<"0", "7">>
    /\ tool.swapped.buyer_state = <<"0", "7">>
    /\ tool.swapped.supplier_state = <<>>

\* A call of calculate_total_tax_rate has returned.
CalculateDone ==
    /\ pc = "tool"
    /\ tool.op = "calculate_total_tax_rate"
    /\ tool.done

\* Whether the i-th entry of a tax list parses, and its percentage.
EntryParses(t, i) == FloatParses(RateText(t[i][2]))

EntryValue(t, i) == FloatValue(RateText(t[i][2]))

\* The sum of the percentages of the first n entries.
RECURSIVE SumOfEntries(_, _)
SumOfEntries(t, n) ==
    IF n = 0 THEN 0 ELSE SumOfEntries(t, n - 1) + EntryValue(t, n)

\* C17: calculate_total_tax_rate returns the sum of the percentages when
\* every entry parses (18 for 9% and 9%), 0.0 for the empty list, and 0.0,
\* not the sum of the entries before the failure, when an entry at any
\* position does not parse.
C17_AtomicAggregation ==
    CalculateDone =>
        LET t == tool.args.tax_list
            total == tool.out.total
        IN  /\ (\A i \in 1..Len(t) : EntryParses(t, i)) =>
                  total = SumOfEntries(t, Len(t))
            /\ (\E i \in 1..Len(t) : ~EntryParses(t, i)) => total = 0
            /\ t = <<>> => total = 0
            /\ t = <<<<"CGST", <<"9", "%">>>>, <<"CGST", <<"9", "%">>>>>> =>
                  total = 1800

\* The last entry of a list does not parse and the ones before it do.
C17_Witness ==
    /\ CalculateDone
    /\ Len(tool.args.tax_list) = 3
    /\ EntryParses(tool.args.tax_list, 1) /\ EntryValue(tool.args.tax_list, 1) = 900
    /\ EntryParses(tool.args.tax_list, 2) /\ EntryValue(tool.args.tax_list, 2) = 250
    /\ ~EntryParses(tool.args.tax_list, 3)
    /\ tool.out.total = 0

\* A call of check_rcm_applicability has returned.
RcmDone ==
    /\ pc = "tool"
    /\ tool.op = "check_rcm_applicability"
    /\ tool.done

\* The marks of an unregistered supplier and the keywords of the
\* reverse-charge services, as the claim lists them.
ClaimedMarks == { <<"U", "R", "P">>, <<"U", "N", "R", "E", "G", "I", "S", "T", "E", "R", "E", "D">>, <<"N", "A">> }

ClaimedKeywords ==
    { <<"r", "e", "v", "e", "r", "s", "e", " ", "c", "h", "a", "r", "g", "e">>,
      <<"r", "c", "m">>,
      <<"g", "t", "a">>,
      <<"l", "e", "g", "a", "l">>,
      <<"a", "d", "v", "o", "c", "a", "t", "e">>,
      <<"a", "r", "b", "i", "t", "r", "a", "t", "i", "o", "n">> }

\* C18: check_rcm_applicability returns true exactly when the supplier
\* country is not IN, or the supplier identifier is absent, empty or, in
\* any letter case, URP, UNREGISTERED or NA, or the description contains,
\* ignoring case, one of the keywords; a foreign supplier gives true
\* whatever the rest is, an unregistered one whatever the description is.
C18_RcmChain ==
    RcmDone =>
        LET g == tool.args.supplier_gstin
            foreign == tool.args.supplier_country # "IN"
            unregistered ==
                \/ g = NoneText
                \/ g = <<>>
                \/ \E m \in ClaimedMarks :
                      /\ Len(m) = Len(g)
                      /\ \A i \in 1..Len(m) : UpperChar(g[i]) = m[i]
            keyword ==
                \E k \in ClaimedKeywords :
                    Contains(StrLower(tool.args.item_description), k)
        IN  /\ tool.out.is_rcm <=> (foreign \/ unregistered \/ keyword)
            /\ foreign => tool.out.is_rcm
            /\ (~foreign /\ unregistered) => tool.out.is_rcm

\* A domestic supplier marked unregistered in lower case, with a
\* description that has no keyword.
C18_Witness ==
    /\ RcmDone
    /\ tool.args.supplier_country = "IN"
    /\ tool.args.supplier_gstin = <<"u", "r", "p">>
    /\ tool.args.item_description = <<"C", "o", "n", "s", "u", "l", "t", "i", "n", "g">>
    /\ tool.out.is_rcm

\* A call of lookup_tax_code has returned.
LookupDone ==
    /\ pc = "tool"
    /\ tool.op = "lookup_tax_code"
    /\ tool.done

\* The call's key is in the canonical key space: rate in {0, 0.25, 3, 5,
\* 12, 18, 28}, category INTRA or INTER, charge REGULAR or RCM, credit
\* CREDIT or NON_CREDIT, region STATE or UT.
CanonicalCall ==
    /\ tool.args.tax_rate \in {0, 25, 300, 500, 1200, 1800, 2800}
    /\ tool.args.transaction_type \in {"INTRA", "INTER"}
    /\ tool.args.charge_type \in {"REGULAR", "RCM"}
    /\ tool.args.credit_type \in {"CREDIT", "NON_CREDIT"}
    /\ tool.args.state_type \in {"STATE", "UT"}

\* C19, as claimed: for every target system and every key of the canonical
\* key space the lookup is a hit.
C19_MasterIsTotal == (LookupDone /\ CanonicalCall) => tool.out.found

\* C19, amended: over the canonical key space the lookup is a hit exactly
\* on these keys: for SAP_ECC, every key with rate 5, 12, 18 or 28 and every
\* key with charge REGULAR and credit CREDIT; for ORACLE and MS_365, the
\* keys with rate 5, 12, 18 or 28, charge REGULAR, credit CREDIT and region
\* STATE.
C19_MasterCoverage ==
    (LookupDone /\ CanonicalCall) =>
        LET a == tool.args
            main_rate == a.tax_rate \in {500, 1200, 1800, 2800}
            plain == a.charge_type = "REGULAR" /\ a.credit_type = "CREDIT"
        IN  tool.out.found <=>
                IF a.erp_type = "SAP_ECC" THEN main_rate \/ plain
                ELSE main_rate /\ plain /\ a.state_type = "STATE"

\* A key of the canonical key space that a master does not map.
C19_Witness ==
    /\ LookupDone
    /\ CanonicalCall
    /\ tool.args.erp_type = "MS_365"
    /\ tool.args.tax_rate = 1800
    /\ tool.args.state_type = "UT"
    /\ ~tool.out.found
    /\ tool.out.tax_code = "MANUAL_REVIEW"

\* The line has two valid identifiers, a domestic supplier and a
\* description without a reverse-charge keyword.
PlainLine(line) ==
    /\ ClaimedShape(line.supplier_gstin) /\ line.supplier_gstin[13] # "0"
    /\ ClaimedShape(line.buyer_gstin) /\ line.buyer_gstin[13] # "0"
    /\ line.supplier_country = "IN"
    /\ \A k \in ClaimedKeywords : ~Contains(StrLower(line.item_description), k)

\* The key of such a line: the sum of its entries, the category of its two
\* region codes, REGULAR, CREDIT, and the region type of the supplier.
PlainKey(line) ==
    <<NormalizeRate(SumOfEntries(line.tax, Len(line.tax))),
      IF SubSeq(line.supplier_gstin, 1, 2) = SubSeq(line.buyer_gstin, 1, 2)
      THEN "INTRA" ELSE "INTER",
      "REGULAR", "CREDIT",
      IF SubSeq(line.supplier_gstin, 1, 2) \in SAP_UNION_TERRITORIES
      THEN "UT" ELSE "STATE">>

\* The selected system's master, as a set of <<key, code>> pairs.
SelectedMaster(erp_type) ==
    CASE erp_type = "ORACLE" -> ORACLE_TAX_CODE_MASTER
      [] erp_type = "MS_365" -> MS360_TAX_CODE_MASTER
      [] OTHER -> SAP_TAX_CODE_MASTER

\* C20: a line with two valid identifiers, a registered domestic supplier,
\* no reverse-charge keyword and a key that is in the selected master is
\* resolved by the lookup, never by the fallback: the result built when its
\* run returns carries the master's code, confidence 0.95, zero tokens and
\* no errors, and the line is added neither to manual_review nor to errors,
\* so that a batch resolved by lookup hits only has successful =
\* total_lines.  For the first sample line on SAP_ECC the key is (18, INTRA,
\* REGULAR, CREDIT, STATE).  Every line resolved by a lookup hit has no
\* errors.
C20_PlainLineHits ==
    [][/\ (pc = "tax_determination" /\ pc' = "await_llm") =>
              ~( /\ PlainLine(CurrentLine)
                 /\ \E p \in SelectedMaster(request.erp_type) :
                       p[1] = PlainKey(CurrentLine) )
       /\ ( /\ pc = "END"
            /\ Len(outcomes') = Len(outcomes) + 1
            /\ outcomes'[Len(outcomes')] # "pipeline-error" ) =>
              LET line == CurrentLine
                  r == results'[Len(results')]
                  master == SelectedMaster(request.erp_type)
              IN  /\ ( /\ PlainLine(line)
                       /\ \E p \in master : p[1] = PlainKey(line) ) =>
                         /\ outcomes'[Len(outcomes')] = "lookup"
                         /\ <<PlainKey(line), r.tax_code>> \in master
                         /\ r.confidence = 9500
                         /\ r.total_prompt_tokens = 0
                         /\ r.total_completion_tokens = 0
                         /\ r.total_reasoning_tokens = 0
                         /\ r.total_tokens = 0
                         /\ r.errors = <<>>
                         /\ error_count' = error_count
                         /\ manual_review_count' = manual_review_count
                  /\ outcomes'[Len(outcomes')] = "lookup" =>
                         /\ r.errors = <<>>
                         /\ error_count' = error_count
                         /\ manual_review_count' = manual_review_count
                  /\ (line = LinePool[1] /\ request.erp_type = "SAP_ECC") =>
                         /\ PlainLine(line)
                         /\ PlainKey(line) =
                                <<<<"1", "8">>, "INTRA", "REGULAR", "CREDIT", "STATE">>
                         /\ r.tax_code = "3Z"
       /\ ( /\ pc = "loop"
            /\ pc' = "done"
            /\ \A k \in 1..Len(outcomes) : outcomes[k] = "lookup" ) =>
              /\ summary'.successful = summary'.total_lines
              /\ summary'.manual_review = 0
              /\ summary'.errors = 0]_vars

\* A batch of the first sample line and of a line whose description names a
\* reverse-charge service, both resolved by the lookup.
C20_Witness ==
    /\ pc = "done"
    /\ request.erp_type = "SAP_ECC"
    /\ outcomes = <<"lookup", "lookup">>
    /\ results[1].tax_code = "3Z"
    /\ results[2].tax_code = "R7"
    /\ results[2].errors = <<>>
    /\ summary.successful = 2

\* The supplier identifier has the shape of a valid identifier.
ValidIdentifier(g) == ClaimedShape(g) /\ g[13] # "0"

NoKeyword(d) == \A k \in ClaimedKeywords : ~Contains(StrLower(d), k)

UnregisteredText == <<"U", "N", "R", "E", "G", "I", "S", "T", "E", "R", "E", "D">>

\* The lookup of the current line has been performed.
LookupPerformed == calls.lookup # Idle

\* C21 as stated: for every line whose supplier identifier is UNREGISTERED,
\* preprocessing sets reverse-charge to true and the key passed to the lookup
\* has charge RCM, and every line with a valid supplier identifier and no
\* keyword in its description gets charge REGULAR.
C21_UnregisteredTwin ==
    LookupPerformed =>
        LET line == CurrentLine
        IN  /\ line.supplier_gstin = UnregisteredText =>
                  /\ st.is_rcm
                  /\ calls.lookup.args.charge_type = "RCM"
                  /\ calls.lookup.key[3] = "RCM"
            /\ ( /\ ValidIdentifier(line.supplier_gstin)
                 /\ NoKeyword(line.item_description) ) =>
                  calls.lookup.key[3] = "REGULAR"

\* C21 (amended): for every line whose supplier identifier is UNREGISTERED,
\* whatever its tax entries, description, buyer identifier and supplier
\* country, preprocessing sets reverse-charge to true and the key passed to
\* the lookup has charge RCM; a line with a valid supplier identifier and no
\* keyword gets charge REGULAR when its supplier country is IN, and RCM when
\* it is not.
C21_UnregisteredTwinDomestic ==
    LookupPerformed =>
        LET line == CurrentLine
        IN  /\ line.supplier_gstin = UnregisteredText =>
                  /\ st.is_rcm
                  /\ calls.lookup.args.charge_type = "RCM"
                  /\ calls.lookup.key[3] = "RCM"
            /\ ( /\ ValidIdentifier(line.supplier_gstin)
                 /\ NoKeyword(line.item_description) ) =>
                  /\ st.is_rcm = (line.supplier_country # "IN")
                  /\ calls.lookup.key[3] =
                         IF line.supplier_country = "IN" THEN "REGULAR" ELSE "RCM"

\* A domestic line from an UNREGISTERED supplier whose description names no
\* reverse-charge service has been looked up with charge RCM.
C21_Witness ==
    /\ LookupPerformed
    /\ pc = "END"
    /\ CurrentLine.supplier_gstin = UnregisteredText
    /\ CurrentLine.supplier_country = "IN"
    /\ NoKeyword(CurrentLine.item_description)
    /\ calls.lookup.key[3] = "RCM"
    /\ st.is_rcm

\* The supported rates (in hundredths) and the text each is to become.
SupportedRateText ==
    [r \in {0, 25, 300, 500, 1200, 1800, 2800} |->
        CASE r = 0 -> <<"0">>
          [] r = 25 -> <<"0", ".", "2", "5">>
          [] r = 300 -> <<"3">>
          [] r = 500 -> <<"5">>
          [] r = 1200 -> <<"1", "2">>
          [] r = 1800 -> <<"1", "8">>
          [] r = 2800 -> <<"2", "8">>]

\* C22: the rate text of the key lookup_tax_code builds is, for each of the
\* supported rates 0, 0.25, 3, 5, 12, 18, 28, exactly '0', '0.25', '3', '5',
\* '12', '18', '28', whatever the other arguments of the call; no other
\* supported rate is turned into the same text; and the text of any rate has
\* no trailing decimal point and, after a decimal point, no trailing zero.
C22_RateNormalization ==
    LookupDone =>
        LET rate == tool.args.tax_rate
            text == tool.key[1]
        IN  /\ rate \in DOMAIN SupportedRateText =>
                  /\ text = SupportedRateText[rate]
                  /\ \A other \in DOMAIN SupportedRateText :
                        NormalizeRate(other) = text => other = rate
            /\ Len(text) > 0
            /\ text[Len(text)] # "."
            /\ Contains(text, <<".">>) => text[Len(text)] # "0"

\* The lookup has been called with the rate 0.0 and has built the text '0'.
C22_Witness ==
    /\ LookupDone
    /\ tool.args.tax_rate = 0
    /\ tool.key[1] = <<"0">>

\* C23: within one line's run the fallback collaborator is called at most
\* once; the call is made only after the lookup has been performed and has
\* missed; no call is made, pending or completed, for a line whose lookup
\* hit; and once a call has failed the run goes on to validation with MANUAL
\* review, without waiting on a second call.
C23_FallbackAtMostOnce ==
    /\ calls.llm <= 1
    /\ (pc = "await_llm" \/ calls.llm > 0) =>
           /\ LookupPerformed
           /\ ~calls.lookup.out.found
    /\ (LookupPerformed /\ calls.lookup.out.found) =>
           /\ calls.llm = 0
           /\ pc # "await_llm"
           /\ prov = "lookup"
    /\ prov = "lookup" => (LookupPerformed /\ calls.lookup.out.found /\ calls.llm = 0)
    /\ prov \in {"fallback", "fallback-failed"} =>
           /\ calls.llm = 1
           /\ pc \in {"validation", "END"}
    /\ prov = "resolution-error" => calls.llm = 0
    /\ prov = "fallback-failed" => st.tax_code = "MANUAL_REVIEW_REQUIRED"

\* The second line of a batch has missed the lookup and its only fallback
\* call has failed, after a first line resolved by the lookup.
C23_Witness ==
    /\ pc = "END"
    /\ idx = 1
    /\ outcomes = <<"lookup">>
    /\ prov = "fallback-failed"
    /\ calls.llm = 1
    /\ ~calls.lookup.out.found

\* The entries a step has appended to a list.
Appended(before, after) == SubSeq(after, Len(before) + 1, Len(after))

\* C24: the validation stage appends the error 'Confidence below threshold
\* (0.6)' exactly when the confidence is strictly below 0.6, appends the
\* error 'Tax code not automatically determined' exactly when the code is
\* MANUAL_REVIEW_REQUIRED, ERROR or empty, appends no other error (none for
\* the prefix cross-check), each at most once, and appends the message 'All
\* validations passed' exactly when it appended no error, whatever errors
\* the earlier stages left.
C24_ValidationErrors ==
    [][(pc = "validation" /\ pc' = "END") =>
          LET new_errors == Appended(st.errors, st'.errors)
              new_messages == Appended(st.messages, st'.messages)
              low == M0("Confidence below threshold (0.6)")
              undetermined == M0("Tax code not automatically determined")
          IN  /\ SubSeq(st'.errors, 1, Len(st.errors)) = st.errors
              /\ (low \in Range(new_errors)) <=> (st.confidence < 6000)
              /\ (undetermined \in Range(new_errors)) <=> (st.tax_code \in Sentinels)
              /\ Range(new_errors) \subseteq {low, undetermined}
              /\ Len(new_errors) = Cardinality(Range(new_errors))
              /\ (M0("All validations passed") \in Range(new_messages))
                     <=> (new_errors = <<>>)]_vars

\* Validation has passed a code returned with a confidence of exactly 0.6,
\* on a line that carries an error of an earlier stage.
C24_Witness ==
    /\ pc = "END"
    /\ st.confidence = 6000
    /\ st.tax_code = "R7"
    /\ st.errors # <<>>
    /\ M0("Confidence below threshold (0.6)") \notin Range(st.errors)
    /\ st.messages[Len(st.messages)] = M0("All validations passed")

\* At least one of the two identifiers of the line is not a valid one.
InvalidLine(line) ==
    ~ValidIdentifier(line.supplier_gstin) \/ ~ValidIdentifier(line.buyer_gstin)

\* The list holds an identifier-validation error.
HasIdentifierError(errors) ==
    \E i \in 1..Len(errors) :
        errors[i].k \in {"Invalid supplier GSTIN: {}", "Invalid buyer GSTIN: {}"}

\* C25: no master of any target system has a row of category UNKNOWN, and
\* for every line with at least one invalid identifier the classifier
\* returns UNKNOWN, the lookup is made with category UNKNOWN and misses (its
\* key is in no system's master), the line is never resolved by the lookup
\* but by the miss branch, its error list holds the identifier-validation
\* message from preprocessing on, and its result is counted in errors, so
\* that the summary never counts it as successful.
C25_InvalidIdentifierNeverSuccessful ==
    /\ \A e \in ErpTypes : \A p \in TaxMaster(e) : p[1][2] # "UNKNOWN"
    /\ InvalidLine(request.lines[1]) =>
          /\ pc \in {"tax_determination", "await_llm", "validation", "END"} =>
                /\ st.transaction_type = "UNKNOWN"
                /\ HasIdentifierError(st.errors)
          /\ LookupPerformed =>
                /\ calls.lookup.key[2] = "UNKNOWN"
                /\ ~calls.lookup.out.found
                /\ \A e \in ErpTypes : \A p \in TaxMaster(e) : p[1] # calls.lookup.key
          /\ pc \in {"validation", "END"} =>
                prov \in {"fallback", "fallback-failed", "resolution-error"}
          /\ idx = 1 =>
                /\ outcomes[1] # "lookup"
                /\ results[1].errors # <<>>
                /\ outcomes[1] # "pipeline-error" =>
                       HasIdentifierError(results[1].errors)
                /\ error_count = 1
          /\ summary.built =>
                /\ summary.errors = 1
                /\ summary.successful <= 0

\* A line whose buyer identifier is one character short, from a valid
\* supplier, has been answered by the fallback with a usable code and good
\* confidence, and is counted in errors.
C25_Witness ==
    /\ summary.built
    /\ ValidIdentifier(request.lines[1].supplier_gstin)
    /\ ~ValidIdentifier(request.lines[1].buyer_gstin)
    /\ outcomes = <<"fallback">>
    /\ results[1].tax_code = "1Z"
    /\ HasIdentifierError(results[1].errors)
    /\ summary.errors = 1
    /\ summary.successful = 0

\* The stage that produces an entry of the message list or the error list.
StageOfEntry(entry) ==
    CASE entry.k \in {"Supplier state: {}", "Buyer state: {}",
                      "State {} is a Union Territory", "Transaction type: {}state",
                      "Total tax rate: {}%", "RCM applicable",
                      "Invalid supplier GSTIN: {}", "Invalid buyer GSTIN: {}"} -> 1
      [] entry.k \in {"Tax code found in master: {}",
                      "No direct match - using LLM for determination",
                      "LLM determined tax code: {}", "LLM error: {}",
                      "Tax determination error: {}"} -> 2
      [] entry.k \in {"Low confidence: {}", "Tax code requires manual review",
                      "IGST tax code matches interstate transaction",
                      "CGST-SGST tax code matches intrastate transaction",
                      "All validations passed",
                      "Confidence below threshold (0.6)",
                      "Tax code not automatically determined"} -> 3
      [] OTHER -> 0

\* The stage running at a position of the line's run.
StageOfPosition(p) ==
    CASE p = "preprocessing" -> 1
      [] p \in {"tax_determination", "await_llm"} -> 2
      [] p = "validation" -> 3
      [] OTHER -> 0

\* C26: the message list and the error list of a line start empty and are
\* append-only across the stages: every step of a stage leaves the entries
\* already there in place and in order and adds only entries of that stage
\* after them, so that the final lists are the preprocessing entries, then
\* the resolution entries, then the validation entries; the result of the
\* line carries the final lists unchanged.
C26_AppendOnly ==
    [][/\ pc = "preprocessing" => (st.messages = <<>> /\ st.errors = <<>>)
       /\ (st # Idle /\ st' # Idle) =>
             \A f \in {"messages", "errors"} :
                /\ Len(st'[f]) >= Len(st[f])
                /\ SubSeq(st'[f], 1, Len(st[f])) = st[f]
                /\ \A e \in Range(Appended(st[f], st'[f])) :
                      StageOfEntry(e) = StageOfPosition(pc)
                /\ \A i \in 1..Len(st'[f]) : \A j \in i..Len(st'[f]) :
                      StageOfEntry(st'[f][i]) <= StageOfEntry(st'[f][j])
       /\ ( /\ pc = "END"
            /\ Len(outcomes') = Len(outcomes) + 1
            /\ outcomes'[Len(outcomes')] # "pipeline-error" ) =>
             /\ results'[Len(results')].messages = st.messages
             /\ results'[Len(results')].errors = st.errors]_vars

\* A line's run has ended with an error of each of the three stages, in the
\* order of the stages, and messages of each.
C26_Witness ==
    /\ pc = "END"
    /\ Len(st.errors) = 4
    /\ st.errors[1].k = "Invalid supplier GSTIN: {}"
    /\ st.errors[2].k = "LLM error: {}"
    /\ st.errors[3] = M0("Confidence below threshold (0.6)")
    /\ st.errors[4] = M0("Tax code not automatically determined")
    /\ st.messages[1].k = "Supplier state: {}"
    /\ M0("No direct match - using LLM for determination") \in Range(st.messages)
    /\ st.messages[Len(st.messages)] = M0("Tax code requires manual review")

\* The fields of a result the claim is about.
ResultFields ==
    {"tax_code", "tax_description", "confidence", "messages", "errors",
     "total_prompt_tokens", "total_completion_tokens",
     "total_reasoning_tokens", "total_tokens"}

\* The final states of a run of the line alone, from zero counters and
\* empty lists, with the given outcome of its own resolution.
AloneFinalStates(line, erp_type, outcome, reply) ==
    LET s0 == InitialState(line, erp_type)
        s1 == MergeUpdates(s0, preprocessing_node(s0))
        resolved ==
            CASE outcome = "lookup" ->
                     {MergeUpdates(s1, DeterminationHit(s1, DeterminationLookup(s1)))}
              [] outcome = "fallback" ->
                     {MergeUpdates(s1, DeterminationLlm(s1, reply.response,
                                                        reply.output))}
              [] outcome = "fallback-failed" ->
                     {MergeUpdates(s1, DeterminationLlmError(s1, e)) :
                          e \in ExceptionTexts}
              [] outcome = "resolution-error" ->
                     {MergeUpdates(s1, DeterminationError(s1, e)) :
                          e \in ExceptionTexts}
              [] OTHER -> {}
    IN  {MergeUpdates(s2, validation_node(s2)) : s2 \in resolved}

\* C27: every line of a batch starts from zero token counters and empty
\* lists, and the result appended for line k is the one a run of line k
\* alone gives with the same target system and the same outcome of its own
\* fallback call, whatever lines came before it and however they ended: it
\* equals, field by field, the result of an earlier identical line with the
\* same outcome, the results already appended are left as they are, and a
\* line resolved by the lookup reports zero tokens even after lines that
\* used the fallback.
C27_LinesIndependent ==
    [][/\ pc = "preprocessing" =>
             /\ st = InitialState(CurrentLine, request.erp_type)
             /\ st.total_prompt_tokens = 0 /\ st.total_completion_tokens = 0
             /\ st.total_reasoning_tokens = 0 /\ st.total_tokens = 0
             /\ st.messages = <<>> /\ st.errors = <<>>
       /\ Len(results') = Len(results) + 1 =>
             LET r == results'[Len(results')]
                 outcome == outcomes'[Len(outcomes')]
                 line == CurrentLine
             IN  /\ SubSeq(results', 1, Len(results)) = results
                 /\ r.item_description = line.item_description
                 /\ outcome # "pipeline-error" =>
                       \E s \in AloneFinalStates(line, request.erp_type,
                                                 outcome, llm_reply) :
                           r = LineResult(idx, line, s)
                 /\ outcome = "pipeline-error" =>
                       \E e \in ExceptionTexts : r = ErrorResult(idx, line, e)
                 /\ outcome \in {"lookup", "pipeline-error"} =>
                       /\ r.total_prompt_tokens = 0
                       /\ r.total_completion_tokens = 0
                       /\ r.total_reasoning_tokens = 0
                       /\ r.total_tokens = 0
                 /\ \A j \in 1..Len(results) :
                       ( /\ request.lines[j] = line
                         /\ outcomes[j] = outcome
                         /\ results[j].tax_code = r.tax_code ) =>
                           \A f \in ResultFields : results[j][f] = r[f]]_vars

\* A line answered by the fallback, with tokens, is followed by a line
\* resolved by the lookup, which reports zero tokens and no error.
C27_Witness ==
    /\ outcomes = <<"fallback", "lookup">>
    /\ results[1].total_tokens = 157
    /\ results[2].total_tokens = 0
    /\ results[2].total_prompt_tokens = 0
    /\ results[2].errors = <<>>
    /\ results[2].messages[1].k = "Supplier state: {}"
    /\ aggregate_total_tokens = 157

\* The counters and the summary of a coroutine are those of its own results.
OwnTotals(c) ==
    LET n == Len(c.results)
        manual == Cardinality({k \in 1..n :
                                  c.results[k].tax_code = "MANUAL_REVIEW_REQUIRED"})
        failed == Cardinality({k \in 1..n : c.results[k].errors # <<>>})
    IN  /\ n = c.idx
        /\ Len(c.outcomes) = n
        /\ \A k \in 1..n :
              /\ c.results[k].line_index = k - 1
              /\ c.results[k].item_description = c.request.lines[k].item_description
        /\ c.total_confidence = SumConfidence(c.results)
        /\ c.aggregate_prompt_tokens = SumField(c.results, "total_prompt_tokens")
        /\ c.aggregate_completion_tokens =
               SumField(c.results, "total_completion_tokens")
        /\ c.aggregate_reasoning_tokens =
               SumField(c.results, "total_reasoning_tokens")
        /\ c.aggregate_total_tokens = SumField(c.results, "total_tokens")
        /\ c.manual_review_count = manual
        /\ c.error_count = failed
        /\ c.summary.built =>
              /\ n = Len(c.request.lines)
              /\ c.summary.total_lines = n
              /\ c.summary.manual_review = manual
              /\ c.summary.errors = failed
              /\ c.summary.successful = n - manual - failed
              /\ c.summary.average_confidence
                     \in AverageConfidence(SumConfidence(c.results), n)
              /\ c.summary.total_prompt_tokens =
                     SumField(c.results, "total_prompt_tokens")
              /\ c.summary.total_completion_tokens =
                     SumField(c.results, "total_completion_tokens")
              /\ c.summary.total_reasoning_tokens =
                     SumField(c.results, "total_reasoning_tokens")
              /\ c.summary.total_tokens = SumField(c.results, "total_tokens")

\* C28: when two batch requests run concurrently on the same agent instance,
\* interleaved in any order at the points where a coroutine yields, each
\* result a request appends is the one its line gives when run alone with
\* the same outcome of its own fallback call, and at every moment the
\* counters of each request, and its summary once built, are those of that
\* request's own results: no update of one request is lost to or added into
\* the other.
C28_RequestsIsolated ==
    [][/\ OwnTotals(Context)'
       /\ OwnTotals(parked)'
       /\ (parked' = parked /\ Len(results') = Len(results) + 1) =>
             LET r == results'[Len(results')]
                 outcome == outcomes'[Len(outcomes')]
                 line == CurrentLine
             IN  /\ SubSeq(results', 1, Len(results)) = results
                 /\ outcome # "pipeline-error" =>
                       \E s \in AloneFinalStates(line, request.erp_type,
                                                 outcome, llm_reply) :
                           r = LineResult(idx, line, s)
                 /\ outcome = "pipeline-error" =>
                       \E e \in ExceptionTexts : r = ErrorResult(idx, line, e)]_vars

\* The two requests are both suspended in the fallback call of their second
\* line, each with the token totals of its own first line.
C28_Witness ==
    /\ parked # Idle
    /\ pc = "await_llm"
    /\ parked.pc = "await_llm"
    /\ idx = 1
    /\ parked.idx = 1
    /\ aggregate_total_tokens = 157
    /\ parked.aggregate_total_tokens = 150
    /\ results[1].tax_code = "1Z"
    /\ parked.results[1].tax_code = "3Z"

\* What the reverse-charge evaluator is to return for a line.
ClaimedRcm(line) ==
    \/ line.supplier_country # "IN"
    \/ line.supplier_gstin = <<>>
    \/ StrUpper(line.supplier_gstin) \in ClaimedMarks
    \/ ~NoKeyword(line.item_description)

\* What the classifier is to return for a line.
ClaimedCategory(line) ==
    IF InvalidLine(line) THEN "UNKNOWN"
    ELSE IF SubSeq(line.supplier_gstin, 1, 2) = SubSeq(line.buyer_gstin, 1, 2)
    THEN "INTRA" ELSE "INTER"

\* C29: in the key the pipeline passes to the lookup, for every line, the
\* credit axis is CREDIT (the credit-eligibility flag is true, and a code
\* returned by a hit is the code of a CREDIT row), the region axis is UT
\* exactly when the supplier's identifier is valid and its region code is in
\* the union-region set, whatever the buyer's, the charge axis is RCM
\* exactly when the reverse-charge evaluator returned true, and the category
\* is the classifier's.
C29_KeyConstruction ==
    LookupPerformed =>
        LET line == CurrentLine
            key == calls.lookup.key
        IN  /\ st.is_credit_eligible
            /\ calls.lookup.args.credit_type = "CREDIT"
            /\ key[4] = "CREDIT"
            /\ calls.lookup.out.found =>
                  /\ <<key, calls.lookup.out.tax_code>> \in TaxMaster(request.erp_type)
                  /\ \A p \in TaxMaster(request.erp_type) :
                        p[1][4] = "NON_CREDIT" => p[1] # key
            /\ key[5] \in {"UT", "STATE"}
            /\ (key[5] = "UT") <=>
                  ( /\ ValidIdentifier(line.supplier_gstin)
                    /\ SubSeq(line.supplier_gstin, 1, 2) \in SAP_UNION_TERRITORIES )
            /\ key[3] \in {"RCM", "REGULAR"}
            /\ (key[3] = "RCM") <=> st.is_rcm
            /\ st.is_rcm = ClaimedRcm(line)
            /\ key[2] = st.transaction_type
            /\ key[2] = ClaimedCategory(line)

\* A line from a valid supplier in a state to a valid buyer in a union
\* territory has been looked up with region STATE.
C29_Witness ==
    /\ LookupPerformed
    /\ pc = "END"
    /\ ValidIdentifier(CurrentLine.supplier_gstin)
    /\ ValidIdentifier(CurrentLine.buyer_gstin)
    /\ SubSeq(CurrentLine.supplier_gstin, 1, 2) \notin SAP_UNION_TERRITORIES
    /\ SubSeq(CurrentLine.buyer_gstin, 1, 2) \in SAP_UNION_TERRITORIES
    /\ calls.lookup.key[5] = "STATE"
    /\ calls.lookup.key[2] = "INTER"
    /\ calls.lookup.key[4] = "CREDIT"

\* Some entry of the tax list does not parse.
ParseFails(t) == \E i \in 1..Len(t) : ~EntryParses(t, i)

\* The line with its tax entries replaced by one entry of 0%.
ZeroRated(line) == [line EXCEPT !.tax = <<<<"IGST", <<"0", "%">>>>>>]

\* C30: when any tax entry of a line fails to parse, preprocessing sets the
\* total rate to 0 and adds no error for it (its errors are those of the
\* identifiers, none when both are valid), the lookup is made with rate '0',
\* and a line with valid identifiers, a registered domestic supplier and no
\* reverse-charge keyword on SAP_ECC ends with code Z0 by lookup hit,
\* confidence 0.95, zero tokens and an empty error list: field by field the
\* result of the same line with a single entry of 0%.
C30_ParseFailureIsZeroRated ==
    LET line == request.lines[1]
    IN  ParseFails(line.tax) =>
          /\ pc \in {"tax_determination", "await_llm", "validation", "END"} =>
                /\ st.total_tax_rate = 0
                /\ Mn("Total tax rate: {}%", 0) \in Range(st.messages)
                /\ \A e \in Range(st.errors) :
                      StageOfEntry(e) = 1 =>
                          e.k \in {"Invalid supplier GSTIN: {}",
                                   "Invalid buyer GSTIN: {}"}
                /\ ~InvalidLine(line) =>
                      \A e \in Range(st.errors) : StageOfEntry(e) # 1
          /\ LookupPerformed => calls.lookup.key[1] = <<"0">>
          /\ ( /\ idx = 1
               /\ outcomes[1] # "pipeline-error"
               /\ PlainLine(line)
               /\ request.erp_type = "SAP_ECC" ) =>
                /\ outcomes[1] = "lookup"
                /\ results[1].tax_code = "Z0"
                /\ results[1].confidence = 9500
                /\ results[1].total_tokens = 0
                /\ results[1].errors = <<>>
                /\ error_count = 0
                /\ manual_review_count = 0
                /\ \E s \in AloneFinalStates(ZeroRated(line), "SAP_ECC",
                                            "lookup", Idle) :
                      results[1] = LineResult(0, line, s)

\* A line with entries 9% and 'abc', two valid identifiers and a registered
\* domestic supplier has been resolved on SAP_ECC as zero-rated.
C30_Witness ==
    /\ summary.built
    /\ request.erp_type = "SAP_ECC"
    /\ Len(request.lines[1].tax) = 2
    /\ EntryParses(request.lines[1].tax, 1)
    /\ ~EntryParses(request.lines[1].tax, 2)
    /\ PlainLine(request.lines[1])
    /\ outcomes = <<"lookup">>
    /\ results[1].tax_code = "Z0"
    /\ results[1].confidence = 9500
    /\ results[1].errors = <<>>
    /\ summary.successful = 1

=============================================================================
